---------------------------- MODULE Spec2Model ----------------------------
(***************************************************************************)
(* CsvDataService (src/src/services/csvData.service.ts): the in-memory     *)
(* reference-data lookup engine of snapAML.  Three keyed indexes           *)
(* (registry, tax rating, insolvency) are built by init() from three       *)
(* delimited sources and joined by getAggregateData().  CompanyController  *)
(* (src/unnamed/part_004) looks a company up, awaits the external checks   *)
(* and scores the two with calculateOverallRisk().                         *)
(*                                                                         *)
(* JavaScript strings are sequences of one-character strings, so that      *)
(* String.prototype.trim and the parser's trim option are computed.        *)
(* A JavaScript value is a record [t, v]: t is "string", "undefined",      *)
(* "null" or "object"; v is the character sequence of a string, the fields *)
(* of an object and <<>> otherwise.                                        *)
(***************************************************************************)
EXTENDS Integers, Sequences, FiniteSets, TLC

\* ------------------------------------------------------------------ bounds

\* The number of init() invocations in one behaviour.
MaxInitCalls == 2

\* The number of data rows of one source of the lifecycle specification.
MaxRows == 2

\* ------------------------------------------------------- JavaScript values

S(chars) == [t |-> "string", v |-> chars]
Undefined == [t |-> "undefined", v |-> <<>>]
Null == [t |-> "null", v |-> <<>>]
EmptyString == S(<<>>)

WhiteSpace == {" "}

RECURSIVE TrimStart(_)
TrimStart(cs) ==
    IF cs # <<>> /\ Head(cs) \in WhiteSpace THEN TrimStart(Tail(cs)) ELSE cs

RECURSIVE TrimEnd(_)
TrimEnd(cs) ==
    IF cs # <<>> /\ cs[Len(cs)] \in WhiteSpace
    THEN TrimEnd(SubSeq(cs, 1, Len(cs) - 1))
    ELSE cs

\* String.prototype.trim on the characters of a string.
TrimChars(cs) == TrimEnd(TrimStart(cs))

\* x?.trim(): undefined stays undefined, a string is trimmed.
OptTrim(x) == IF x.t = "string" THEN S(TrimChars(x.v)) ELSE Undefined

\* JavaScript truthiness of a string-or-undefined-or-null value.
Truthy(x) == x.t = "string" /\ x.v # <<>>

\* x || d
Or(x, d) == IF Truthy(x) THEN x ELSE d


\* --------------------------------------------------------------- the sources

Sources == {"registry", "tax", "insolvency"}

\* A raw line of a source: the text of each column before the parser trims
\* it, or a line the parser cannot turn into a record (it emits 'error').
RawLine(fields) == [malformed |-> FALSE, fields |-> fields]
MalformedLine == [malformed |-> TRUE, fields |-> <<>>]

\* ParseLine with the parser's trim option left out: the texts keep their
\* surrounding white space.
ParseLine_noTrim(line) ==
    [c \in DOMAIN line.fields |-> line.fields[c]]

\* csv-parse with columns: true and trim: true: one object per line, each
\* column's text with the surrounding white space removed.
ParseLine(line) ==
    [c \in DOMAIN line.fields |-> OptTrim(line.fields[c])]

RegistryLine(regcode, text, terminated) ==
    RawLine([regcode |-> regcode, name |-> text, address |-> text,
             registered |-> text, type_text |-> text,
             terminated |-> terminated, sepa |-> text,
             regtype_text |-> text, type |-> text, closed |-> text,
             region |-> text, city |-> text])

TaxLine(regcode, text) ==
    RawLine([Registracijas_kods |-> regcode, Reitings |-> text,
             Skaidrojums |-> text,
             Informacijas_atjaunosanas_datums |-> text])

InsolvencyLine(regcode, text) ==
    RawLine([debtor_registration_number |-> regcode,
             proceeding_resolution_name |-> text,
             proceeding_started_on |-> text, proceeding_ended_on |-> text,
             proceeding_form |-> text, proceeding_type |-> text,
             court_name |-> text])

\* All sequences over a set with at most n elements.
SeqUpTo(set, n) == UNION {[1..k -> set] : k \in 0..n}

\* ------------------------------------------------------------ the records

\* RegistryData with is_active taken from the closed column, not from the
\* termination date.
RegistryData_byClosed(row) ==
    [name |-> Or(row.name, EmptyString),
     address |-> Or(row.address, EmptyString),
     registered |-> Or(row.registered, EmptyString),
     type_text |-> Or(row.type_text, EmptyString),
     terminated |-> Or(row.terminated, EmptyString),
     is_active |-> ~Truthy(row.closed),
     sepa |-> Or(row.sepa, EmptyString),
     regtype_text |-> Or(row.regtype_text, EmptyString),
     type |-> Or(row.type, EmptyString),
     closed |-> Or(row.closed, EmptyString),
     region |-> Or(row.region, EmptyString),
     city |-> Or(row.city, EmptyString)]

\* The object built by the 'data' handler of loadRegistryData.
RegistryData(row) ==
    [name |-> Or(row.name, EmptyString),
     address |-> Or(row.address, EmptyString),
     registered |-> Or(row.registered, EmptyString),
     type_text |-> Or(row.type_text, EmptyString),
     terminated |-> Or(row.terminated, EmptyString),
     is_active |-> (~Truthy(row.terminated)
                    \/ OptTrim(row.terminated) = EmptyString),
     sepa |-> Or(row.sepa, EmptyString),
     regtype_text |-> Or(row.regtype_text, EmptyString),
     type |-> Or(row.type, EmptyString),
     closed |-> Or(row.closed, EmptyString),
     region |-> Or(row.region, EmptyString),
     city |-> Or(row.city, EmptyString)]

\* The object built by the 'data' handler of loadTaxData.
TaxData(row) ==
    [rating |-> Or(row.Reitings, EmptyString),
     explanation |-> Or(row.Skaidrojums, EmptyString),
     rating_updated_date |->
         Or(row.Informacijas_atjaunosanas_datums, EmptyString)]

\* InsolvencyData with has_insolvency taken from the content of the row
\* (true when it names a proceeding resolution), not from its existence.
InsolvencyData_byName(row) ==
    [proceeding_resolution_name |->
         Or(row.proceeding_resolution_name, EmptyString),
     has_insolvency |-> Truthy(row.proceeding_resolution_name),
     proceeding_started_on |-> Or(row.proceeding_started_on, EmptyString),
     proceeding_ended_on |-> Or(row.proceeding_ended_on, EmptyString),
     proceeding_form |-> Or(row.proceeding_form, EmptyString),
     proceeding_type |-> Or(row.proceeding_type, EmptyString),
     court_name |-> Or(row.court_name, EmptyString)]

\* The object built by the 'data' handler of loadInsolvencyData.
InsolvencyData(row) ==
    [proceeding_resolution_name |->
         Or(row.proceeding_resolution_name, EmptyString),
     has_insolvency |-> TRUE,
     proceeding_started_on |-> Or(row.proceeding_started_on, EmptyString),
     proceeding_ended_on |-> Or(row.proceeding_ended_on, EmptyString),
     proceeding_form |-> Or(row.proceeding_form, EmptyString),
     proceeding_type |-> Or(row.proceeding_type, EmptyString),
     court_name |-> Or(row.court_name, EmptyString)]

\* row.regcode?.trim(), row.Registracijas_kods?.trim(),
\* row.debtor_registration_number?.trim()
RegistryKey(row) == OptTrim(row.regcode)
TaxKey(row) == OptTrim(row.Registracijas_kods)
InsolvencyKey(row) == OptTrim(row.debtor_registration_number)

\* A Map<string, T> is a function whose domain is the set of its keys (each
\* key the character sequence of a string).
EmptyMap == << >>
MapHas(m, k) == k \in DOMAIN m
\* MapSet that keeps the record a key already has (insert-if-absent).
MapSet_keepFirst(m, k, v) ==
    [x \in (DOMAIN m) \cup {k} |-> IF x \in DOMAIN m THEN m[x] ELSE v]

MapSet(m, k, v) == [x \in (DOMAIN m) \cup {k} |-> IF x = k THEN v ELSE m[x]]
MapSize(m) == Cardinality(DOMAIN m)

\* SetIfKey without the if: the record is stored under whatever the key
\* field gave, the empty string included.
SetIfKey_unguarded(m, key, data) == MapSet(m, key.v, data)

\* The body of a 'data' handler: if (regcode) map.set(regcode, data).
SetIfKey(m, key, data) == IF Truthy(key) THEN MapSet(m, key.v, data) ELSE m

\* ------------------------------------------------------------------ state

VARIABLES
    isInitialized,  \* CsvDataService.isInitialized
    registryMap,    \* CsvDataService.registryMap
    taxMap,         \* CsvDataService.taxMap
    insolvencyMap,  \* CsvDataService.insolvencyMap
    files,          \* the three sources in the bucket: a static snapshot
    calls,          \* the init() invocations: position, builds, Promise.all
    result,         \* what getAggregateData returned or threw to its caller in
                    \* the step just taken (NoResult after any other step)
    request,        \* one generateRiskProfile request of CompanyController
    server,         \* startServer() of the entry point, and its process
    external,       \* one ExternalApiService.checkAll call
    limiter         \* AdverseMediaService's search rate limiter

vars == <<isInitialized, registryMap, taxMap, insolvencyMap, files, calls,
          result, request, server, external, limiter>>

indexes == <<registryMap, taxMap, insolvencyMap>>

CallIds == 1..MaxInitCalls

NoError == [kind |-> "none", source |-> "none"]
DownloadError(s) == [kind |-> "download", source |-> s]
ParseError(s) == [kind |-> "parse", source |-> s]

\* A build (one of loadRegistryData, loadTaxData, loadInsolvencyData) of one
\* init() call: "idle" before it is started, "download" while it awaits
\* downloadFileFromBucket, "parsing" while the parser emits rows (pos rows
\* emitted so far), "done" once it resolved, "failed" once it rejected.
IdleBuild == [st |-> "idle", pos |-> 0, error |-> NoError]

\* An init() call: "idle" before it is invoked, "signIn" while it awaits
\* signIn(), "joining" while it awaits Promise.all, then "resolved" or
\* "rejected" (thrown is the error it rejected with).  rejection is the state
\* of the Promise.all promise: the first rejection among the three builds.
\* afterFailure records (for the claims) whether a build of an earlier call
\* had already rejected when this call was invoked.
IdleCall ==
    [pc |-> "idle", build |-> [s \in Sources |-> IdleBuild],
     rejection |-> NoError, thrown |-> NoError, afterFailure |-> FALSE]

Invoked(c) == calls[c].pc # "idle"

\* AllDone as Promise.race or Promise.any would settle: one build resolved.
AllDone_any(c) == \E s \in Sources : calls[c].build[s].st = "done"

AllDone(c) == \A s \in Sources : calls[c].build[s].st = "done"
SomeFailed(c) == \E s \in Sources : calls[c].build[s].st = "failed"

\* ------------------------------------------------------- the read interface

NotInitializedError ==
    [kind |-> "throw", error |-> "not initialized", regNumber |-> <<>>,
     value |-> <<>>]
\* NotFoundError with a message that does not interpolate the number.
NotFoundError_unnamed(regNumber) ==
    [kind |-> "throw", error |-> "not found in registry",
     regNumber |-> <<>>, value |-> <<>>]

NotFoundError(regNumber) ==
    [kind |-> "throw", error |-> "not found in registry",
     regNumber |-> regNumber, value |-> <<>>]
Returned(value) ==
    [kind |-> "return", error |-> "", regNumber |-> <<>>, value |-> value]
NoResult ==
    [kind |-> "none", error |-> "", regNumber |-> <<>>, value |-> <<>>]

\* FieldOrNull that yields the empty string, not null, for a key the index
\* lacks.
FieldOrNull_empty(m, k, f) ==
    IF MapHas(m, k) THEN Or(m[k][f], Null) ELSE EmptyString

\* taxData?.f || null  and  insolvencyData?.f || null
FieldOrNull(m, k, f) ==
    IF MapHas(m, k) THEN Or(m[k][f], Null) ELSE Null

\* The object getAggregateData returns when the registry has regNumber.
AggregateData(regNumber) ==
    LET registryData == registryMap[regNumber] IN
    [name |-> registryData.name,
     address |-> registryData.address,
     registered |-> registryData.registered,
     type_text |-> registryData.type_text,
     terminated |-> registryData.terminated,
     is_active |-> registryData.is_active,
     sepa |-> registryData.sepa,
     regtype_text |-> registryData.regtype_text,
     type |-> registryData.type,
     closed |-> registryData.closed,
     region |-> registryData.region,
     city |-> registryData.city,
     rating |-> FieldOrNull(taxMap, regNumber, "rating"),
     explanation |-> FieldOrNull(taxMap, regNumber, "explanation"),
     rating_updated_date |->
         FieldOrNull(taxMap, regNumber, "rating_updated_date"),
     proceeding_resolution_name |->
         FieldOrNull(insolvencyMap, regNumber, "proceeding_resolution_name"),
     has_insolvency |->
         (MapHas(insolvencyMap, regNumber)
          /\ insolvencyMap[regNumber].has_insolvency),
     proceeding_started_on |->
         FieldOrNull(insolvencyMap, regNumber, "proceeding_started_on"),
     proceeding_ended_on |->
         FieldOrNull(insolvencyMap, regNumber, "proceeding_ended_on"),
     proceeding_form |->
         FieldOrNull(insolvencyMap, regNumber, "proceeding_form"),
     proceeding_type |->
         FieldOrNull(insolvencyMap, regNumber, "proceeding_type"),
     court_name |-> FieldOrNull(insolvencyMap, regNumber, "court_name")]

\* ensureInitialized with its check left out: it always returns.
ensureInitialized_unchecked == TRUE

\* ensureInitialized(): TRUE when it returns, FALSE when it throws.
ensureInitialized == isInitialized

\* What getAggregateData(regNumber) returns or throws in the current state.
Lookup(regNumber) ==
    IF ~ensureInitialized THEN NotInitializedError
    ELSE IF ~MapHas(registryMap, regNumber) THEN NotFoundError(regNumber)
    ELSE Returned(AggregateData(regNumber))

isReady == isInitialized

getStats ==
    [registryCount |-> MapSize(registryMap),
     taxCount |-> MapSize(taxMap),
     insolvencyCount |-> MapSize(insolvencyMap),
     isInitialized |-> isInitialized]

\* ------------------------------------------------- CompanyController

\* A JavaScript object: its fields.
Obj(fields) == [t |-> "object", v |-> fields]

\* String.prototype.toLowerCase over the letters the ratings are written in.
LowerChar(c) ==
    CASE c = "P" -> "p"
      [] c = "O" -> "o"
      [] c = "R" -> "r"
      [] c = "A" -> "a"
      [] OTHER -> c
ToLowerCase(cs) == [i \in DOMAIN cs |-> LowerChar(cs[i])]

\* String.prototype.includes
Includes(cs, sub) ==
    \E i \in 1..(Len(cs) - Len(sub) + 1) :
        SubSeq(cs, i, i + Len(sub) - 1) = sub

\* localData.rating && localData.rating.toLowerCase().includes('poor')
PoorRating(rating) ==
    Truthy(rating) /\ Includes(ToLowerCase(rating.v), <<"p", "o", "o", "r">>)

\* RiskScore where a sanction hit assigns 50 to the score and does not add
\* to it.
RiskScore_sanctionAssigns(localData, apiResults) ==
    IF apiResults.is_sanctioned
    THEN 50 + (IF PoorRating(localData.rating) THEN 20 ELSE 0)
    ELSE (IF ~localData.is_active THEN 30 ELSE 0)
             + (IF localData.has_insolvency THEN 40 ELSE 0)
             + (IF PoorRating(localData.rating) THEN 20 ELSE 0)

\* riskScore of calculateOverallRisk when it reaches the thresholds.
RiskScore(localData, apiResults) ==
    (IF ~localData.is_active THEN 30 ELSE 0)
        + (IF localData.has_insolvency THEN 40 ELSE 0)
        + (IF apiResults.is_sanctioned THEN 50 ELSE 0)
        + (IF PoorRating(localData.rating) THEN 20 ELSE 0)

\* RiskLevel with thresholds that exclude their boundary (> for >=).
RiskLevel_exclusive(riskScore) ==
    IF riskScore > 80 THEN "CRITICAL"
    ELSE IF riskScore > 50 THEN "HIGH"
    ELSE IF riskScore > 25 THEN "MEDIUM"
    ELSE "LOW"

\* The thresholds of calculateOverallRisk.
RiskLevel(riskScore) ==
    IF riskScore >= 80 THEN "CRITICAL"
    ELSE IF riskScore >= 50 THEN "HIGH"
    ELSE IF riskScore >= 25 THEN "MEDIUM"
    ELSE "LOW"

RiskReturned(level) == [kind |-> "return", level |-> level, error |-> ""]
RiskThrew(error) == [kind |-> "throw", level |-> "", error |-> error]
NoRisk == [kind |-> "none", level |-> "", error |-> ""]

\* calculateOverallRisk(localData, apiResults): the level it returns, or the
\* TypeError of reading localData.is_active when localData is null.
calculateOverallRisk(localData, apiResults) ==
    IF localData.t # "object" THEN RiskThrew("TypeError")
    ELSE RiskReturned(RiskLevel(RiskScore(localData.v, apiResults.v)))

\* RiskScoreTenths where a positive adverse-media score replaces the sum of
\* the other signals and is not added to it.
RiskScoreTenths_mediaReplaces(localData, apiResults, aiResults) ==
    IF aiResults.risk_score > 0 THEN aiResults.risk_score * 3
    ELSE (IF ~localData.is_active THEN 300 ELSE 0)
             + (IF localData.has_insolvency THEN 400 ELSE 0)
             + (IF apiResults.sanctions.is_sanctioned THEN 500 ELSE 0)
             + (IF apiResults.pep_check.is_pep THEN 250 ELSE 0)
             + (IF PoorRating(localData.rating) THEN 200 ELSE 0)

\* calculateOverallRisk(localData, apiResults, aiResults) of the controller
\* with PEP and adverse-media checks, for a localData that is a record.  The
\* score is kept in tenths, so that risk_score * 0.3 is an integer.
RiskScoreTenths(localData, apiResults, aiResults) ==
    (IF ~localData.is_active THEN 300 ELSE 0)
        + (IF localData.has_insolvency THEN 400 ELSE 0)
        + (IF apiResults.sanctions.is_sanctioned THEN 500 ELSE 0)
        + (IF apiResults.pep_check.is_pep THEN 250 ELSE 0)
        + aiResults.risk_score * 3
        + (IF PoorRating(localData.rating) THEN 200 ELSE 0)

RiskLevelTenths(riskScore) ==
    IF riskScore >= 800 THEN "CRITICAL"
    ELSE IF riskScore >= 500 THEN "HIGH"
    ELSE IF riskScore >= 250 THEN "MEDIUM"
    ELSE "LOW"

\* calculateOverallRisk(localData, apiResults, aiResults) of the controller
\* with PEP and adverse-media checks: the level it returns, or the TypeError
\* of reading localData.is_active when localData is null.
calculateOverallRiskWithMedia(localData, apiResults, aiResults) ==
    IF localData.t # "object" THEN RiskThrew("TypeError")
    ELSE RiskReturned(RiskLevelTenths(
             RiskScoreTenths(localData.v, apiResults.v, aiResults.v)))

\* The two CompanyControllers of the repository.  The current one checks
\* company sanctions only (flat apiResults, adverse media disabled); the one
\* with PEP and adverse-media checks takes nested apiResults and aiResults.
Current == "current"
WithMedia == "withMedia"
Controllers == {Current, WithMedia}

\* !x
Not(x) ==
    \/ x.t \in {"undefined", "null"}
    \/ x.t = "string" /\ x.v = <<>>
    \/ x.t = "number" /\ x.v = <<"0">>

\* validateGetCompanyRequest(body): the message it returns, '' for null.
validateGetCompanyRequest(body) ==
    IF Not(body) THEN "Request body is required"
    ELSE IF Not(body.v.registrationNumber)
    THEN "Company registration number is required"
    ELSE IF body.v.registrationNumber.t # "string"
    THEN "Company registration number must be a string"
    ELSE IF Len(TrimChars(body.v.registrationNumber.v)) = 0
    THEN "Company registration number cannot be empty"
    ELSE ""

\* res.status(status).json({success: false, error})
ErrorResponse(status, error) ==
    [status |-> status, success |-> FALSE, error |-> error, data |-> Null]
\* res.status(200).json({success: true, data: riskProfile})
ProfileResponse(riskProfile) ==
    [status |-> 200, success |-> TRUE, error |-> "", data |-> riskProfile]
NoResponse == [status |-> 0, success |-> FALSE, error |-> "", data |-> Null]

\* handleError(error, res), by error.message.
handleError(error) ==
    IF error \in {"Company not found", "Database query failed"}
    THEN ErrorResponse(404, "Company not found")
    ELSE ErrorResponse(500, "Internal server error")

\* Step C of the current controller: the riskProfile object (checked_at and
\* the fields copied like address are left out).
RiskProfile(registrationNumber, companyName, localData, apiResults, overallRiskLevel) ==
    Obj([registration_number |-> registrationNumber,
         company_name |-> companyName,
         address |-> Or(localData.v.address, EmptyString),
         terminated_date |-> Or(Or(localData.v.terminated, Null), EmptyString),
         tax_rating |-> Or(localData.v.rating, EmptyString),
         is_active |-> localData.v.is_active,
         has_insolvency |-> localData.v.has_insolvency,
         is_sanctioned |-> apiResults.v.is_sanctioned,
         sanction_sources |-> apiResults.v.sanction_sources,
         sanction_details |-> apiResults.v.sanction_details,
         is_pep |-> FALSE,
         pep_details |-> "null",
         adverse_media_risk_score |-> 0,
         adverse_media_summary |-> "Adverse media check disabled",
         overall_risk_level |-> overallRiskLevel])

\* Step C of the controller with PEP and adverse-media checks.
RiskProfileWithMedia(registrationNumber, companyName, localData, apiResults, aiResults, overallRiskLevel) ==
    Obj([registration_number |-> registrationNumber,
         company_name |-> companyName,
         address |-> localData.v.address,
         terminated_date |-> Or(localData.v.terminated, Null),
         tax_rating |-> localData.v.rating,
         is_active |-> localData.v.is_active,
         has_insolvency |-> localData.v.has_insolvency,
         is_sanctioned |-> apiResults.v.sanctions.is_sanctioned,
         sanction_sources |-> apiResults.v.sanctions.sources,
         sanction_details |-> apiResults.v.sanctions.details,
         is_pep |-> apiResults.v.pep_check.is_pep,
         pep_details |-> apiResults.v.pep_check.details,
         adverse_media_risk_score |-> aiResults.v.risk_score,
         adverse_media_summary |-> aiResults.v.summary,
         overall_risk_level |-> overallRiskLevel])

\* saveRiskProfile(submissionData, profile) once signIn() is through: '' when
\* it resolves, else the message of the error it throws.  The current
\* controller looks the number up again before the insert; insertError is
\* the error field of the insert's answer.
saveRiskProfile(controller, registrationNumber, lookup, insertError) ==
    IF controller = Current /\ lookup.kind = "throw" THEN lookup.error
    ELSE IF insertError THEN "Failed to save risk profile to database"
    ELSE ""

\* A generateRiskProfile request of one of the controllers.  pc: "idle"
\* before it arrives, "getCompany" while it awaits Step A, "checkAll" while
\* it awaits Promise.all of Step B (the lookup is already done: localData is
\* its record, or null with localDataError set when it threw), "save" while
\* it awaits saveRiskProfile, "responded" once res.status(..).json(..) was
\* called.  called lists the collaborators in the order they were called.
IdleRequest ==
    [pc |-> "idle", controller |-> Current, registrationNumber |-> <<>>,
     companyName |-> Null, localData |-> Null, localDataError |-> "",
     apiResults |-> Null, aiResults |-> Null, overallRisk |-> NoRisk,
     riskProfile |-> Null, saved |-> "", called |-> <<>>,
     response |-> NoResponse]

\* ------------------------------------------------------------ startServer

\* startServer() of the entry point: "starting" until its await of
\* CsvDataService.getInstance().init() settles, "listening" once app.listen
\* was called, "exited" once process.exit(exitCode) was.
IdleServer == [st |-> "starting", exitCode |-> 0]

\* ----------------------------------------------------- ExternalApiService

\* MATCH_THRESHOLD = 0.7, with match scores held in hundredths.
MATCH_THRESHOLD == 70

\* A JavaScript array.
Arr(items) == [t |-> "object", v |-> items]

\* What a promise settled with (Pending while it has not).
Resolved(value) == [kind |-> "resolve", value |-> value]
Rejected(error) == [kind |-> "reject", value |-> [error |-> error]]
Pending == [kind |-> "pending", value |-> [error |-> ""]]

\* The answer of an HTTP request not made (yet).
NoReply == [kind |-> "none"]

\* checkVies(countryCode, regNumber), by the reply to axios.get: the data of
\* a 2xx answer, or the error axios threw (status 404, or 0 without answer).
\* Both branches of the catch return the same object.
checkVies(reply) ==
    IF reply.kind = "data"
    THEN Resolved([isValid |-> reply.isValid = TRUE,
                   address |-> Or(reply.traderAddress,
                                  Or(reply.address, Null))])
    ELSE Resolved([isValid |-> FALSE, address |-> Null])

\* { is_sanctioned: false, sanction_details: null, sanction_sources: [] }
CleanSanctions ==
    [is_sanctioned |-> FALSE, sanction_details |-> Null,
     sanction_sources |-> << >>]

\* HighConfidenceMatches with > for >=.
HighConfidenceMatches_strict(results) ==
    SelectSeq(results, LAMBDA match : match.score > MATCH_THRESHOLD)

\* results.filter((match) => match.score >= this.MATCH_THRESHOLD)
HighConfidenceMatches(results) ==
    SelectSeq(results, LAMBDA match : match.score >= MATCH_THRESHOLD)

\* checkOpenSanctions whose catch rethrows the error of the request.
checkOpenSanctions_rethrow(apiKey, reply) ==
    IF Not(apiKey) THEN Resolved(CleanSanctions)
    ELSE IF reply.kind = "error" THEN Rejected("API Request Failed")
    ELSE LET results == reply.results
             highConfidenceMatches == HighConfidenceMatches(results)
         IN  IF Len(results) = 0 THEN Resolved(CleanSanctions)
             ELSE IF Len(highConfidenceMatches) > 0
             THEN LET bestMatch == highConfidenceMatches[1] IN
                  Resolved([is_sanctioned |-> TRUE,
                            sanction_details |-> Arr(highConfidenceMatches),
                            sanction_sources |->
                                IF bestMatch.properties.topics.t = "undefined"
                                THEN <<"Unspecified Sanction List">>
                                ELSE bestMatch.properties.topics.v])
             ELSE Resolved(CleanSanctions)

\* checkOpenSanctions(companyName), by OPENSANCTIONS_API_KEY and the reply to
\* axios.post (none without a key): the results of the answer, or the error
\* axios threw.
checkOpenSanctions(apiKey, reply) ==
    IF Not(apiKey) THEN Resolved(CleanSanctions)
    ELSE IF reply.kind = "error"
    THEN Resolved([is_sanctioned |-> FALSE,
                   sanction_details |->
                       Obj([error |-> "API Request Failed"]),
                   sanction_sources |-> << >>])
    ELSE LET results == reply.results
             highConfidenceMatches == HighConfidenceMatches(results)
         IN  IF Len(results) = 0 THEN Resolved(CleanSanctions)
             ELSE IF Len(highConfidenceMatches) > 0
             THEN LET bestMatch == highConfidenceMatches[1] IN
                  Resolved([is_sanctioned |-> TRUE,
                            sanction_details |-> Arr(highConfidenceMatches),
                            sanction_sources |->
                                IF bestMatch.properties.topics.t = "undefined"
                                THEN <<"Unspecified Sanction List">>
                                ELSE bestMatch.properties.topics.v])
             ELSE Resolved(CleanSanctions)

\* One ExternalApiService.checkAll call: "idle" before it is made, "awaiting"
\* while it awaits Promise.all of checkVies and checkOpenSanctions, then
\* "resolved" (result is the object it returned) or "rejected".  vies and
\* sanctions are the promises of the two checks; viesReply and
\* sanctionsReply record the replies they got.
IdleExternal ==
    [pc |-> "idle", apiKey |-> Undefined, vies |-> Pending,
     sanctions |-> Pending, viesReply |-> NoReply,
     sanctionsReply |-> NoReply, result |-> Null]

\* ---------------------------------------------------- AdverseMediaService

MAX_DAILY_SEARCHES == 50

\* The default of performSearch's maxRetries.
maxRetries == 2

\* The performSearch calls that may be in progress at once.
MaxCallers == 2
Callers == 1..MaxCallers

\* A performSearch call: "idle" before it is made, "sleeping" while it awaits
\* the sleeps before a search, "searching" while it awaits search(),
\* "backoff" while it awaits the sleep after a failed attempt, "done" once it
\* returned or threw (outcome).  atCap records whether canPerformSearch
\* found the cap reached; searches counts the search() calls it made.
IdleCaller ==
    [pc |-> "idle", attempt |-> 0, atCap |-> FALSE, searches |-> 0,
     outcome |-> "none"]

\* The static fields of AdverseMediaService.  dayElapsed stands for
\* Date.now() - lastSearchTime > 86400000 (true at load: lastSearchTime = 0).
\* performed counts the search() calls made since searchAttempts was last
\* reset.
IdleLimiter ==
    [dayElapsed |-> TRUE, searchAttempts |-> 0, performed |-> 0,
     callers |-> [i \in Callers |-> IdleCaller]]

\* searchAttempts after canPerformSearch(), and what it returns.
ResetIfNewDay(l) == IF l.dayElapsed THEN 0 ELSE l.searchAttempts
canPerformSearch(l) == ResetIfNewDay(l) < MAX_DAILY_SEARCHES

\* ---------------------------------------------------------------- inputs

K1 == S(<<"1">>)
K2 == S(<<"2">>)

\* The registration numbers getAggregateData is called with.
RegNumbers == {<<"1">>, <<"2">>, <<" ", "1">>}

\* The lines the sources are made of: a plain line, a line with the same
\* key and white space around its texts, a line whose texts are empty or
\* blank, a line with an empty key, lines of a source that lacks a column,
\* and a line the parser rejects.
RegistryLines ==
    {RegistryLine(K1, S(<<"a">>), EmptyString),
     RegistryLine(S(<<" ", "1">>), S(<<"b", " ">>), S(<<"x">>)),
     RegistryLine(K2, EmptyString, S(<<" ">>)),
     RegistryLine(EmptyString, S(<<"a">>), S(<<"x">>)),
     RegistryLine(Undefined, S(<<"a">>), EmptyString),
     RegistryLine(K2, Undefined, Undefined),
     MalformedLine}
TaxLines == {TaxLine(K1, S(<<"p">>)), TaxLine(K2, EmptyString)}
InsolvencyLines ==
    {InsolvencyLine(K2, S(<<"c">>)), InsolvencyLine(K1, EmptyString)}

\* With columns: true the header decides which columns a record has: the
\* lines of one source all have a column or all lack it.
SameColumns(file) ==
    \A i, j \in DOMAIN file :
        (~file[i].malformed /\ ~file[j].malformed) =>
            \A c \in DOMAIN file[i].fields :
                (file[i].fields[c] = Undefined) <=>
                    (file[j].fields[c] = Undefined)

FilesOf(lines, n) == {f \in SeqUpTo(lines, n) : SameColumns(f)}

\* The snapshots of the data specification: one init() call over every
\* combination of the lines above.
DataFiles ==
    [registry : FilesOf(RegistryLines, MaxRows),
     tax : FilesOf(TaxLines, 1),
     insolvency : FilesOf(InsolvencyLines, 1)]

\* The snapshots of the lifecycle specification, where init() calls overlap:
\* a registry that is empty, has one line, has a repeated key, or has a line
\* the parser rejects (first, or after a good line), with one tax line and
\* one insolvency line.
LifecycleRegistryFiles ==
    LET plain == RegistryLine(K1, S(<<"a">>), EmptyString)
        again == RegistryLine(S(<<" ", "1">>), S(<<"b", " ">>), S(<<"x">>))
    IN  {<< >>, <<plain>>, <<MalformedLine>>, <<plain, again>>,
         <<plain, MalformedLine>>}

LifecycleFiles ==
    [registry : LifecycleRegistryFiles,
     tax : {<<TaxLine(K1, S(<<"p">>))>>},
     insolvency : {<<InsolvencyLine(K2, S(<<"c">>))>>}]

\* A line of source s with the given key text and the given text in every
\* other column.
BuildLine(s, key, text) ==
    CASE s = "registry" -> RegistryLine(key, text, text)
      [] s = "tax" -> TaxLine(key, text)
      [] s = "insolvency" -> InsolvencyLine(key, text)

\* The lines of the index-build specification, the same for each source: two
\* lines with the same key (one with white space around key and texts), a
\* line with another key, lines whose key is empty, blank or absent, and a
\* line the parser rejects.
BuildLines(s) ==
    {BuildLine(s, K1, S(<<"a">>)),
     BuildLine(s, S(<<" ", "1">>), S(<<"b", " ">>)),
     BuildLine(s, K2, EmptyString),
     BuildLine(s, EmptyString, S(<<"a">>)),
     BuildLine(s, S(<<" ">>), S(<<"b">>)),
     BuildLine(s, Undefined, S(<<"a">>)),
     MalformedLine}

\* The snapshots of the index-build specification: one source at a time
\* ranges over every file of at most MaxRows of these lines, while the other
\* two sources have one plain line.
BuildFiles ==
    LET plain == [s \in Sources |-> <<BuildLine(s, K1, S(<<"a">>))>>] IN
    UNION {{[plain EXCEPT ![s] = f] : f \in FilesOf(BuildLines(s), MaxRows)} :
               s \in Sources}

\* The rating texts of the scoring specification: texts that contain
\* 'poor' in some letter case, and texts that do not.
PoorTexts ==
    {<<"P", "O", "O", "R">>, <<"P", "o", "o", "r">>,
     <<"x", "p", "o", "o", "r", "x">>}
OtherTexts == {<<"p", "o", "r">>, <<"r", "o", "o", "p">>, <<"A">>, <<>>}
RatingTexts == PoorTexts \cup OtherTexts

\* The snapshots of the scoring specification: a registry the parser
\* rejects, or one with one company, active or terminated; no tax line or
\* one with one of the rating texts; no insolvency line or one.
RiskFiles ==
    [registry : {<<MalformedLine>>,
                 <<RegistryLine(K1, S(<<"a">>), EmptyString)>>,
                 <<RegistryLine(K1, S(<<"a">>), S(<<"x">>))>>},
     tax : {<< >>} \cup {<<TaxLine(K1, S(t))>> : t \in RatingTexts},
     insolvency : {<< >>, <<InsolvencyLine(K1, EmptyString)>>}]

\* What ExternalApiService.checkAll resolves with: no sanction match, a
\* high-confidence match, and the defaults it returns when the sanctions API
\* request failed.
CheckAllResults ==
    {[vies_valid |-> TRUE, is_sanctioned |-> FALSE,
      sanction_details |-> "null", sanction_sources |-> << >>],
     [vies_valid |-> TRUE, is_sanctioned |-> TRUE,
      sanction_details |-> "matches", sanction_sources |-> <<"sanction">>],
     [vies_valid |-> FALSE, is_sanctioned |-> FALSE,
      sanction_details |-> "API Request Failed", sanction_sources |-> << >>]}

\* The snapshots of the request specification: a registry the parser
\* rejects; an active company with no tax or insolvency line; an active one
\* with an insolvency line and a rating without 'poor'; a terminated one with
\* an insolvency line and a poor rating.
ProfileFiles ==
    {[registry |-> <<MalformedLine>>, tax |-> << >>, insolvency |-> << >>],
     [registry |-> <<RegistryLine(K1, S(<<"a">>), EmptyString)>>,
      tax |-> << >>, insolvency |-> << >>],
     [registry |-> <<RegistryLine(K1, S(<<"a">>), EmptyString)>>,
      tax |-> <<TaxLine(K1, S(<<"p", "o", "r">>))>>,
      insolvency |-> <<InsolvencyLine(K1, EmptyString)>>],
     [registry |-> <<RegistryLine(K1, S(<<"a">>), S(<<"x">>))>>,
      tax |-> <<TaxLine(K1, S(<<"P", "o", "o", "r">>))>>,
      insolvency |-> <<InsolvencyLine(K1, EmptyString)>>]}

\* What the ExternalApiService with sanctions and PEP checks resolves with:
\* the answer of its two checks without a hit, the values of its result type
\* with hits, and the defaults of its catch.
NestedCheckAllResults ==
    {[sanctions |-> [is_sanctioned |-> FALSE,
                     sources |-> <<"OFAC", "EU Sanctions", "UN Sanctions">>,
                     details |-> "null"],
      pep_check |-> [is_pep |-> FALSE, details |-> "null"]],
     [sanctions |-> [is_sanctioned |-> TRUE, sources |-> <<"OFAC">>,
                     details |-> "listed"],
      pep_check |-> [is_pep |-> FALSE, details |-> "null"]],
     [sanctions |-> [is_sanctioned |-> FALSE,
                     sources |-> <<"OFAC", "EU Sanctions", "UN Sanctions">>,
                     details |-> "null"],
      pep_check |-> [is_pep |-> TRUE, details |-> "exposed"]],
     [sanctions |-> [is_sanctioned |-> FALSE, sources |-> << >>,
                     details |-> "Check failed"],
      pep_check |-> [is_pep |-> FALSE, details |-> "Check failed"]]}

\* The adverse-media scores analyzeReputation resolves with: 0 without search
\* results, 50 from its catch, and scores of the analysis in 0..100.
MediaScores == {0, 10, 50, 84, 100}
AnalysisResults ==
    {[risk_score |-> score,
      summary |-> IF score = 50 THEN "Analysis failed" ELSE "analysis"] :
         score \in MediaScores}

\* What Promise.all of Step B resolves with besides localData, by controller.
ChecksOf(controller) ==
    IF controller = Current THEN {Obj(c) : c \in CheckAllResults}
    ELSE {Obj(c) : c \in NestedCheckAllResults}
AnalysesOf(controller) ==
    IF controller = Current THEN {Null}
    ELSE {Obj(a) : a \in AnalysisResults}

\* The request bodies: none, one without registrationNumber, with an empty
\* one, with a number, with a blank string, and with each of RegNumbers.
Bodies ==
    {Undefined}
    \cup {Obj([registrationNumber |-> x]) :
              x \in {Undefined, EmptyString, [t |-> "number", v |-> <<"7">>],
                     S(<<" ">>)} \cup {S(r) : r \in RegNumbers}}

\* What companyService.getCompanyByRegistrationNumber settles with: it
\* throws, or resolves with the submission.
Submissions ==
    {[found |-> FALSE, company_name |-> Null],
     [found |-> TRUE, company_name |-> S(<<"A">>)],
     [found |-> TRUE, company_name |-> Null]}

\* The values of process.env.OPENSANCTIONS_API_KEY: unset, empty, set.
ApiKeys == {Undefined, EmptyString, S(<<"k">>)}

\* The replies to the VIES request: an answer's data (isValid, and the
\* address under traderAddress, under address, or absent), a 404, and an
\* error without an answer.
ViesReplies ==
    {[kind |-> "data", isValid |-> v, traderAddress |-> t, address |-> a,
      status |-> 200] :
         v \in BOOLEAN, t \in {Undefined, S(<<"t">>)},
         a \in {Undefined, S(<<"a">>)}}
    \cup {[kind |-> "error", isValid |-> FALSE, traderAddress |-> Undefined,
           address |-> Undefined, status |-> st] : st \in {404, 0}}

\* The matches of an OpenSanctions answer: scores below, on and above the
\* threshold, with and without topics.
MatchScores == {69, 70, 90}
Matches ==
    {[score |-> sc, properties |-> [topics |-> tp]] :
         sc \in MatchScores, tp \in {Undefined, Arr(<<"sanction">>)}}

\* The replies to the OpenSanctions request: an answer with up to MaxMatches
\* matches, or an error.
MaxMatches == 2
SanctionsReplies ==
    {[kind |-> "results", results |-> rs] : rs \in SeqUpTo(Matches, MaxMatches)}
    \cup {[kind |-> "error", results |-> << >>]}

\* ------------------------------------------------------------------- init()

Init ==
    /\ isInitialized = FALSE
    /\ registryMap = EmptyMap
    /\ taxMap = EmptyMap
    /\ insolvencyMap = EmptyMap
    /\ files \in LifecycleFiles
    /\ calls = [c \in CallIds |-> IdleCall]
    /\ result = NoResult
    /\ request = IdleRequest
    /\ server = IdleServer
    /\ external = IdleExternal
    /\ limiter = IdleLimiter

\* init() is invoked: it returns at once when isInitialized, and otherwise
\* runs up to its first await, signIn().
init(c) ==
    /\ calls[c].pc = "idle"
    /\ IF c = 1 THEN TRUE ELSE Invoked(c - 1)
    /\ calls' = [calls EXCEPT
                    ![c].pc = IF isInitialized THEN "resolved" ELSE "signIn",
                    ![c].afterFailure = \E d \in CallIds : SomeFailed(d)]
    /\ UNCHANGED <<isInitialized, indexes, files>>
    /\ result' = NoResult
    /\ UNCHANGED <<request, server, external, limiter>>

\* signIn() resolved (it logs its error and never throws): the three loaders
\* are called, each runs up to its await of downloadFileFromBucket, and
\* init() awaits Promise.all of the three.
initStartBuilds(c) ==
    /\ calls[c].pc = "signIn"
    /\ calls' = [calls EXCEPT
                    ![c].pc = "joining",
                    ![c].build = [s \in Sources |->
                        [st |-> "download", pos |-> 0, error |-> NoError]]]
    /\ UNCHANGED <<isInitialized, indexes, files>>
    /\ result' = NoResult
    /\ UNCHANGED <<request, server, external, limiter>>

\* The Promise.all promise after build s of call c rejected with e: the
\* first rejection settles it, later ones are ignored.
RejectAll(call, e) ==
    IF call.rejection = NoError THEN e ELSE call.rejection

BuildFails(c, s, e) ==
    calls' = [calls EXCEPT
                 ![c].build[s] = [st |-> "failed", pos |-> @.pos, error |-> e],
                 ![c].rejection = RejectAll(calls[c], e)]

\* downloadFileFromBucket resolved with the text of the source: the stream
\* is piped into the parser.
downloadOk(c, s) ==
    /\ calls[c].build[s].st = "download"
    /\ calls' = [calls EXCEPT ![c].build[s].st = "parsing"]
    /\ UNCHANGED <<isInitialized, indexes, files>>
    /\ result' = NoResult
    /\ UNCHANGED <<request, server, external, limiter>>

\* downloadFileFromBucket threw: the loader's catch rejects its promise.
downloadFails(c, s) ==
    /\ calls[c].build[s].st = "download"
    /\ BuildFails(c, s, DownloadError(s))
    /\ UNCHANGED <<isInitialized, indexes, files>>
    /\ result' = NoResult
    /\ UNCHANGED <<request, server, external, limiter>>

\* The next line of source s for build s of call c, when there is one.
HasNext(c, s) ==
    /\ calls[c].build[s].st = "parsing"
    /\ calls[c].build[s].pos < Len(files[s])
NextLine(c, s) == files[s][calls[c].build[s].pos + 1]

Advance(c, s) == calls' = [calls EXCEPT ![c].build[s].pos = @ + 1]

\* The 'data' handlers of the three loaders.  The parser hands the rows of a
\* source to the handler one at a time, in source order; callbacks of other
\* builds and calls of the read interface may run between two of them.
loadRegistryData_data(c) ==
    /\ HasNext(c, "registry")
    /\ ~NextLine(c, "registry").malformed
    /\ LET row == ParseLine(NextLine(c, "registry")) IN
       registryMap' = SetIfKey(registryMap, RegistryKey(row), RegistryData(row))
    /\ Advance(c, "registry")
    /\ UNCHANGED <<isInitialized, taxMap, insolvencyMap, files>>
    /\ result' = NoResult
    /\ UNCHANGED <<request, server, external, limiter>>

loadTaxData_data(c) ==
    /\ HasNext(c, "tax")
    /\ ~NextLine(c, "tax").malformed
    /\ LET row == ParseLine(NextLine(c, "tax")) IN
       taxMap' = SetIfKey(taxMap, TaxKey(row), TaxData(row))
    /\ Advance(c, "tax")
    /\ UNCHANGED <<isInitialized, registryMap, insolvencyMap, files>>
    /\ result' = NoResult
    /\ UNCHANGED <<request, server, external, limiter>>

\* loadInsolvencyData's handler that also writes to the registry index: it
\* marks the company of the row as closed there.
loadInsolvencyData_data_marksRegistry(c) ==
    /\ HasNext(c, "insolvency")
    /\ ~NextLine(c, "insolvency").malformed
    /\ LET row == ParseLine(NextLine(c, "insolvency")) IN
       /\ insolvencyMap' =
              SetIfKey(insolvencyMap, InsolvencyKey(row), InsolvencyData(row))
       /\ registryMap' =
              IF Truthy(InsolvencyKey(row))
                  /\ MapHas(registryMap, InsolvencyKey(row).v)
              THEN [registryMap EXCEPT
                       ![InsolvencyKey(row).v].closed = S(<<"L">>)]
              ELSE registryMap
    /\ Advance(c, "insolvency")
    /\ UNCHANGED <<isInitialized, taxMap, files>>
    /\ result' = NoResult
    /\ UNCHANGED <<request, server, external, limiter>>

loadInsolvencyData_data(c) ==
    /\ HasNext(c, "insolvency")
    /\ ~NextLine(c, "insolvency").malformed
    /\ LET row == ParseLine(NextLine(c, "insolvency")) IN
       insolvencyMap' =
           SetIfKey(insolvencyMap, InsolvencyKey(row), InsolvencyData(row))
    /\ Advance(c, "insolvency")
    /\ UNCHANGED <<isInitialized, registryMap, taxMap, files>>
    /\ result' = NoResult
    /\ UNCHANGED <<request, server, external, limiter>>

\* The 'error' handler of a loader: the parser met a line it rejects.
load_error(c, s) ==
    /\ HasNext(c, s)
    /\ NextLine(c, s).malformed
    /\ BuildFails(c, s, ParseError(s))
    /\ UNCHANGED <<isInitialized, indexes, files>>
    /\ result' = NoResult
    /\ UNCHANGED <<request, server, external, limiter>>

\* The 'end' handler of a loader: resolve().
load_end(c, s) ==
    /\ calls[c].build[s].st = "parsing"
    /\ calls[c].build[s].pos = Len(files[s])
    /\ calls' = [calls EXCEPT ![c].build[s].st = "done"]
    /\ UNCHANGED <<isInitialized, indexes, files>>
    /\ result' = NoResult
    /\ UNCHANGED <<request, server, external, limiter>>

\* initResume with a catch that logs the error and does not rethrow: init()
\* resolves although a build rejected.
initResume_swallow(c) ==
    /\ calls[c].pc = "joining"
    /\ \/ /\ calls[c].rejection # NoError
          /\ calls' = [calls EXCEPT ![c].pc = "resolved"]
          /\ UNCHANGED isInitialized
       \/ /\ calls[c].rejection = NoError
          /\ \A s \in Sources : calls[c].build[s].st = "done"
          /\ isInitialized' = TRUE
          /\ calls' = [calls EXCEPT ![c].pc = "resolved"]
    /\ UNCHANGED <<indexes, files>>
    /\ result' = NoResult
    /\ UNCHANGED <<request, server, external, limiter>>

\* init() resumes after await Promise.all: it sets isInitialized when the
\* three builds resolved, and rethrows from its catch when one rejected.
initResume(c) ==
    /\ calls[c].pc = "joining"
    /\ \/ /\ calls[c].rejection # NoError
          /\ calls' = [calls EXCEPT ![c].pc = "rejected",
                                    ![c].thrown = calls[c].rejection]
          /\ UNCHANGED isInitialized
       \/ /\ calls[c].rejection = NoError
          /\ AllDone(c)
          /\ isInitialized' = TRUE
          /\ calls' = [calls EXCEPT ![c].pc = "resolved"]
    /\ UNCHANGED <<indexes, files>>
    /\ result' = NoResult
    /\ UNCHANGED <<request, server, external, limiter>>

\* getAggregateData that stores an empty tax record for a number the tax
\* index lacks, so that the next lookup finds one.
getAggregateData_memo(regNumber) ==
    /\ result' = Lookup(regNumber)
    /\ taxMap' =
           IF MapHas(taxMap, regNumber) THEN taxMap
           ELSE MapSet(taxMap, regNumber,
                       [rating |-> EmptyString, explanation |-> EmptyString,
                        rating_updated_date |-> EmptyString])
    /\ UNCHANGED <<isInitialized, registryMap, insolvencyMap, files, calls,
                   request, server, external, limiter>>

\* getAggregateData(regNumber) is called: its outcome is recorded.
getAggregateData(regNumber) ==
    /\ result' = Lookup(regNumber)
    /\ UNCHANGED <<isInitialized, indexes, files, calls, request, server,
                   external, limiter>>

\* A request arrives at generateRiskProfile: the body is validated; a body
\* that fails is answered 400, else Step A calls
\* companyService.getCompanyByRegistrationNumber and awaits it.
generateRiskProfile(body) ==
    /\ request.pc = "idle"
    /\ LET validationError == validateGetCompanyRequest(body) IN
       request' =
           IF validationError # ""
           THEN [request EXCEPT
                    !.pc = "responded",
                    !.response = ErrorResponse(400, validationError)]
           ELSE [request EXCEPT
                    !.pc = "getCompany",
                    !.registrationNumber = body.v.registrationNumber.v,
                    !.called = <<"getCompanyByRegistrationNumber">>]
    /\ result' = NoResult
    /\ UNCHANGED <<isInitialized, indexes, files, calls, server, external,
                   limiter>>

\* Step A settled.  When it threw, the request is answered (400 by the
\* current controller, 404 by the one with media checks).  Else Step B
\* starts: the lookup runs at once (its error is caught and localData stays
\* null) and the request awaits Promise.all with ExternalApiService.checkAll
\* (and AdverseMediaService.analyzeReputation).
generateRiskProfileStepB(submission) ==
    /\ request.pc = "getCompany"
    /\ request' =
           IF ~submission.found
           THEN [request EXCEPT
                    !.pc = "responded",
                    !.response =
                        ErrorResponse(
                            IF request.controller = Current THEN 400 ELSE 404,
                            "Company submission not found in database")]
           ELSE LET lookup == Lookup(request.registrationNumber) IN
                [request EXCEPT
                    !.pc = "checkAll",
                    !.companyName =
                        Or(submission.company_name,
                           S(<<"U", "n", "k", "n", "o", "w", "n">>)),
                    !.localData =
                        IF lookup.kind = "return" THEN Obj(lookup.value)
                        ELSE Null,
                    !.localDataError = lookup.error,
                    !.called =
                        request.called
                            \o <<"getAggregateData", "checkAll">>
                            \o (IF request.controller = Current THEN << >>
                                ELSE <<"analyzeReputation">>)]
    /\ result' = NoResult
    /\ UNCHANGED <<isInitialized, indexes, files, calls, server, external,
                   limiter>>

\* generateRiskProfileResume that calls saveRiskProfile as soon as Promise.all
\* resolved, before the null check and the scoring.
generateRiskProfileResume_saveFirst(checked, analyzed) ==
    /\ request.pc = "checkAll"
    /\ LET scored ==
               [request EXCEPT
                   !.apiResults = checked,
                   !.aiResults = analyzed,
                   !.called = request.called \o <<"saveRiskProfile">>,
                   !.overallRisk =
                       IF request.controller = Current
                       THEN calculateOverallRisk(request.localData, checked)
                       ELSE calculateOverallRiskWithMedia(
                                request.localData, checked, analyzed)]
       IN
       request' =
           IF request.controller = WithMedia /\ Not(request.localData)
           THEN [request EXCEPT
                    !.pc = "responded",
                    !.apiResults = checked,
                    !.aiResults = analyzed,
                    !.called = request.called \o <<"saveRiskProfile">>,
                    !.response =
                        ErrorResponse(
                            404,
                            IF request.localDataError # ""
                            THEN request.localDataError
                            ELSE "Company not found in Latvian Registry")]
           ELSE IF scored.overallRisk.kind = "throw"
           THEN [scored EXCEPT
                    !.pc = "responded",
                    !.response = handleError(scored.overallRisk.error)]
           ELSE [scored EXCEPT
                    !.pc = "save",
                    !.riskProfile =
                        IF request.controller = Current
                        THEN RiskProfile(
                                 request.registrationNumber,
                                 request.companyName, request.localData,
                                 checked, scored.overallRisk.level)
                        ELSE RiskProfileWithMedia(
                                 request.registrationNumber,
                                 request.companyName, request.localData,
                                 checked, analyzed, scored.overallRisk.level)]
    /\ result' = NoResult
    /\ UNCHANGED <<isInitialized, indexes, files, calls, server, external,
                   limiter>>

\* Promise.all of Step B resolved with checked (and analyzed).  The
\* controller with media checks answers 404 when localData is null.  Then
\* calculateOverallRisk runs: what it throws goes to handleError; when it
\* returns, Step C builds the profile and Step D calls saveRiskProfile.
generateRiskProfileResume(checked, analyzed) ==
    /\ request.pc = "checkAll"
    /\ LET scored ==
               [request EXCEPT
                   !.apiResults = checked,
                   !.aiResults = analyzed,
                   !.overallRisk =
                       IF request.controller = Current
                       THEN calculateOverallRisk(request.localData, checked)
                       ELSE calculateOverallRiskWithMedia(
                                request.localData, checked, analyzed)]
       IN
       request' =
           IF request.controller = WithMedia /\ Not(request.localData)
           THEN [request EXCEPT
                    !.pc = "responded",
                    !.apiResults = checked,
                    !.aiResults = analyzed,
                    !.response =
                        ErrorResponse(
                            404,
                            IF request.localDataError # ""
                            THEN request.localDataError
                            ELSE "Company not found in Latvian Registry")]
           ELSE IF scored.overallRisk.kind = "throw"
           THEN [scored EXCEPT
                    !.pc = "responded",
                    !.response = handleError(scored.overallRisk.error)]
           ELSE [scored EXCEPT
                    !.pc = "save",
                    !.riskProfile =
                        IF request.controller = Current
                        THEN RiskProfile(
                                 request.registrationNumber,
                                 request.companyName, request.localData,
                                 checked, scored.overallRisk.level)
                        ELSE RiskProfileWithMedia(
                                 request.registrationNumber,
                                 request.companyName, request.localData,
                                 checked, analyzed, scored.overallRisk.level),
                    !.called = request.called \o <<"saveRiskProfile">>]
    /\ result' = NoResult
    /\ UNCHANGED <<isInitialized, indexes, files, calls, server, external,
                   limiter>>

\* generateRiskProfileRespond where an error of saveRiskProfile is not
\* caught in Step D and reaches handleError.
generateRiskProfileRespond_rethrow(insertError) ==
    /\ request.pc = "save"
    /\ LET saved ==
               saveRiskProfile(request.controller, request.registrationNumber,
                               Lookup(request.registrationNumber),
                               insertError)
       IN  request' =
               [request EXCEPT
                   !.pc = "responded",
                   !.saved = IF saved = "" THEN "resolved" ELSE saved,
                   !.response =
                       IF saved = ""
                       THEN ProfileResponse(request.riskProfile)
                       ELSE handleError(saved)]
    /\ result' = NoResult
    /\ UNCHANGED <<isInitialized, indexes, files, calls, server, external,
                   limiter>>

\* saveRiskProfile settled: Step D catches what it threw, and Step E
\* answers 200 with the profile.
generateRiskProfileRespond(insertError) ==
    /\ request.pc = "save"
    /\ LET saved ==
               saveRiskProfile(request.controller, request.registrationNumber,
                               Lookup(request.registrationNumber),
                               insertError)
       IN  request' =
               [request EXCEPT
                   !.pc = "responded",
                   !.saved = IF saved = "" THEN "resolved" ELSE saved,
                   !.response = ProfileResponse(request.riskProfile)]
    /\ result' = NoResult
    /\ UNCHANGED <<isInitialized, indexes, files, calls, server, external,
                   limiter>>

\* The steps of one generateRiskProfile request.
NextRequest ==
    \/ \E body \in Bodies : generateRiskProfile(body)
    \/ \E submission \in Submissions : generateRiskProfileStepB(submission)
    \/ \E checked \in ChecksOf(request.controller),
          analyzed \in AnalysesOf(request.controller) :
           generateRiskProfileResume(checked, analyzed)
    \/ \E insertError \in BOOLEAN : generateRiskProfileRespond(insertError)

\* checkAll(regNumber, companyName) is called: checkVies runs up to its
\* await of axios.get; checkOpenSanctions returns at once without an API key
\* and else runs up to its await of axios.post; checkAll awaits Promise.all.
checkAll ==
    /\ external.pc = "idle"
    /\ external' =
           [external EXCEPT
               !.pc = "awaiting",
               !.sanctions =
                   IF Not(external.apiKey)
                   THEN checkOpenSanctions(external.apiKey, NoReply)
                   ELSE Pending]
    /\ result' = NoResult
    /\ UNCHANGED <<isInitialized, indexes, files, calls, request, server,
                   limiter>>

\* The VIES request settled.
checkViesSettles(reply) ==
    /\ external.pc = "awaiting"
    /\ external.vies = Pending
    /\ external' = [external EXCEPT !.vies = checkVies(reply),
                                    !.viesReply = reply]
    /\ result' = NoResult
    /\ UNCHANGED <<isInitialized, indexes, files, calls, request, server,
                   limiter>>

\* The OpenSanctions request settled.
checkOpenSanctionsSettles(reply) ==
    /\ external.pc = "awaiting"
    /\ external.sanctions = Pending
    /\ external' =
           [external EXCEPT
               !.sanctions = checkOpenSanctions(external.apiKey, reply),
               !.sanctionsReply = reply]
    /\ result' = NoResult
    /\ UNCHANGED <<isInitialized, indexes, files, calls, request, server,
                   limiter>>

\* checkAll resumes from await Promise.all: it rejects as soon as one of the
\* two checks rejected (there is no try around the await), and once both
\* resolved it returns the five fields.
checkAllResume ==
    /\ external.pc = "awaiting"
    /\ \/ /\ "reject" \in {external.vies.kind, external.sanctions.kind}
          /\ external' = [external EXCEPT !.pc = "rejected"]
       \/ /\ external.vies.kind = "resolve"
          /\ external.sanctions.kind = "resolve"
          /\ LET vies == external.vies.value
                 sanctions == external.sanctions.value
             IN  external' =
                     [external EXCEPT
                         !.pc = "resolved",
                         !.result =
                             Obj([vies_valid |-> vies.isValid,
                                  vies_address |-> vies.address,
                                  is_sanctioned |-> sanctions.is_sanctioned,
                                  sanction_details |->
                                      sanctions.sanction_details,
                                  sanction_sources |->
                                      sanctions.sanction_sources])]
    /\ result' = NoResult
    /\ UNCHANGED <<isInitialized, indexes, files, calls, request, server,
                   limiter>>

\* performSearch is called: canPerformSearch() resets the counter after a
\* day without a search and compares it with the cap; the call throws when
\* the cap is reached and else enters the loop and awaits its sleeps.
performSearch(i) ==
    /\ limiter.callers[i].pc \in {"idle", "done"}
    /\ limiter' =
           [limiter EXCEPT
               !.searchAttempts = ResetIfNewDay(limiter),
               !.performed = IF limiter.dayElapsed THEN 0 ELSE @,
               !.callers[i] =
                   IF canPerformSearch(limiter)
                   THEN [IdleCaller EXCEPT !.pc = "sleeping", !.attempt = 1]
                   ELSE [IdleCaller EXCEPT
                            !.pc = "done", !.atCap = TRUE,
                            !.outcome = "Daily search limit reached"]]
    /\ result' = NoResult
    /\ UNCHANGED <<isInitialized, indexes, files, calls, request, server,
                   external>>

\* The sleeps of an attempt are over: search() is called and awaited.  (The
\* model stops once the searches made exceed the cap.)
performSearch_search(i) ==
    /\ limiter.callers[i].pc = "sleeping"
    /\ limiter.performed <= MAX_DAILY_SEARCHES
    /\ limiter' =
           [limiter EXCEPT
               !.performed = @ + 1,
               !.callers[i].pc = "searching",
               !.callers[i].searches = @ + 1]
    /\ result' = NoResult
    /\ UNCHANGED <<isInitialized, indexes, files, calls, request, server,
                   external>>

\* search() settled.  When it resolved, lastSearchTime is set to now, the
\* counter is incremented and the call returns.  When it rejected, the call
\* sleeps and tries again while attempt < maxRetries, and else rethrows.
performSearch_settled(i, found) ==
    /\ limiter.callers[i].pc = "searching"
    /\ limiter' =
           IF found
           THEN [limiter EXCEPT
                    !.dayElapsed = FALSE,
                    !.searchAttempts = @ + 1,
                    !.callers[i].pc = "done",
                    !.callers[i].outcome = "searchResults"]
           ELSE IF limiter.callers[i].attempt < maxRetries
           THEN [limiter EXCEPT !.callers[i].pc = "backoff"]
           ELSE [limiter EXCEPT
                    !.callers[i].pc = "done",
                    !.callers[i].outcome = "search error"]
    /\ result' = NoResult
    /\ UNCHANGED <<isInitialized, indexes, files, calls, request, server,
                   external>>

\* The backoff sleep is over: the loop goes to its next attempt.
performSearch_retry(i) ==
    /\ limiter.callers[i].pc = "backoff"
    /\ limiter' =
           [limiter EXCEPT
               !.callers[i].pc = "sleeping",
               !.callers[i].attempt = @ + 1]
    /\ result' = NoResult
    /\ UNCHANGED <<isInitialized, indexes, files, calls, request, server,
                   external>>

\* More than 24 hours have gone by since lastSearchTime.
dayPasses ==
    /\ ~limiter.dayElapsed
    /\ limiter' = [limiter EXCEPT !.dayElapsed = TRUE]
    /\ result' = NoResult
    /\ UNCHANGED <<isInitialized, indexes, files, calls, request, server,
                   external>>

\* startServerResume of the entry point that calls app.listen at module
\* load, without awaiting init().
startServerResume_listenFirst ==
    /\ server.st = "starting"
    /\ server' = [server EXCEPT !.st = "listening"]
    /\ result' = NoResult
    /\ UNCHANGED <<isInitialized, indexes, files, calls, request, external,
                   limiter>>

\* startServer() resumes from its await of init() (call 1): when init()
\* resolved it calls app.listen; when init() rejected its catch calls
\* process.exit(1).
startServerResume ==
    /\ server.st = "starting"
    /\ calls[1].pc \in {"resolved", "rejected"}
    /\ server' =
           IF calls[1].pc = "resolved"
           THEN [server EXCEPT !.st = "listening"]
           ELSE [server EXCEPT !.st = "exited", !.exitCode = 1]
    /\ result' = NoResult
    /\ UNCHANGED <<isInitialized, indexes, files, calls, request, external,
                   limiter>>

NextOf(ids) ==
    \/ \E c \in ids : init(c)
    \/ \E c \in ids : initStartBuilds(c)
    \/ \E c \in ids, s \in Sources : downloadOk(c, s)
    \/ \E c \in ids, s \in Sources : downloadFails(c, s)
    \/ \E c \in ids : loadRegistryData_data(c)
    \/ \E c \in ids : loadTaxData_data(c)
    \/ \E c \in ids : loadInsolvencyData_data(c)
    \/ \E c \in ids, s \in Sources : load_error(c, s)
    \/ \E c \in ids, s \in Sources : load_end(c, s)
    \/ \E c \in ids : initResume(c)
    \/ \E r \in RegNumbers : getAggregateData(r)

\* The lifecycle specification: up to MaxInitCalls init() calls, issued at
\* any time, over a small snapshot.
Next == NextOf(CallIds)

Spec == Init /\ [][Next]_vars

\* The data specification: init() is called once, as the startup path does,
\* over every snapshot of DataFiles.
InitData ==
    /\ isInitialized = FALSE
    /\ registryMap = EmptyMap
    /\ taxMap = EmptyMap
    /\ insolvencyMap = EmptyMap
    /\ files \in DataFiles
    /\ calls = [c \in CallIds |-> IdleCall]
    /\ result = NoResult
    /\ request = IdleRequest
    /\ server = IdleServer
    /\ external = IdleExternal
    /\ limiter = IdleLimiter

NextData == NextOf({1})

SpecData == InitData /\ [][NextData]_vars

\* The index-build specification: init() is called once over every snapshot
\* of BuildFiles.
InitBuild ==
    /\ isInitialized = FALSE
    /\ registryMap = EmptyMap
    /\ taxMap = EmptyMap
    /\ insolvencyMap = EmptyMap
    /\ files \in BuildFiles
    /\ calls = [c \in CallIds |-> IdleCall]
    /\ result = NoResult
    /\ request = IdleRequest
    /\ server = IdleServer
    /\ external = IdleExternal
    /\ limiter = IdleLimiter

SpecBuild == InitBuild /\ [][NextData]_vars

\* The scoring specification: init() is called once over every snapshot of
\* RiskFiles, and one generateRiskProfile request arrives at any time.
InitRisk ==
    /\ isInitialized = FALSE
    /\ registryMap = EmptyMap
    /\ taxMap = EmptyMap
    /\ insolvencyMap = EmptyMap
    /\ files \in RiskFiles
    /\ calls = [c \in CallIds |-> IdleCall]
    /\ result = NoResult
    /\ request = IdleRequest
    /\ server = IdleServer
    /\ external = IdleExternal
    /\ limiter = IdleLimiter

NextRisk == NextOf({1}) \/ NextRequest

SpecRisk == InitRisk /\ [][NextRisk]_vars

\* The request specification: init() is called once over every snapshot of
\* ProfileFiles, and one generateRiskProfile request arrives at any time at
\* either controller.
InitProfile ==
    /\ isInitialized = FALSE
    /\ registryMap = EmptyMap
    /\ taxMap = EmptyMap
    /\ insolvencyMap = EmptyMap
    /\ files \in ProfileFiles
    /\ calls = [c \in CallIds |-> IdleCall]
    /\ result = NoResult
    /\ \E controller \in Controllers :
           request = [IdleRequest EXCEPT !.controller = controller]
    /\ server = IdleServer
    /\ external = IdleExternal
    /\ limiter = IdleLimiter

SpecProfile == InitProfile /\ [][NextRisk]_vars

\* The startup specification: startServer() makes the one init() call; the
\* process runs until process.exit, and the routes answer requests once the
\* server listens.
InitServer ==
    /\ isInitialized = FALSE
    /\ registryMap = EmptyMap
    /\ taxMap = EmptyMap
    /\ insolvencyMap = EmptyMap
    /\ files \in LifecycleFiles
    /\ calls = [c \in CallIds |-> IdleCall]
    /\ result = NoResult
    /\ request = IdleRequest
    /\ server = IdleServer
    /\ external = IdleExternal
    /\ limiter = IdleLimiter

\* The process runs; the server accepts requests.
Running == server.st # "exited"
Listening == server.st = "listening"

NextServer ==
    \/ Running /\ init(1)
    \/ Running /\ initStartBuilds(1)
    \/ \E s \in Sources : Running /\ downloadOk(1, s)
    \/ \E s \in Sources : Running /\ downloadFails(1, s)
    \/ Running /\ loadRegistryData_data(1)
    \/ Running /\ loadTaxData_data(1)
    \/ Running /\ loadInsolvencyData_data(1)
    \/ \E s \in Sources : Running /\ load_error(1, s)
    \/ \E s \in Sources : Running /\ load_end(1, s)
    \/ Running /\ initResume(1)
    \/ startServerResume
    \/ \E body \in Bodies : Listening /\ generateRiskProfile(body)
    \/ \E submission \in Submissions :
           Listening /\ generateRiskProfileStepB(submission)
    \/ \E checked \in ChecksOf(request.controller),
          analyzed \in AnalysesOf(request.controller) :
           Listening /\ generateRiskProfileResume(checked, analyzed)
    \/ \E insertError \in BOOLEAN :
           Listening /\ generateRiskProfileRespond(insertError)

SpecServer == InitServer /\ [][NextServer]_vars

\* The external-check specification: one checkAll call, for every value of
\* the API key and every reply to its two requests, in either order.
InitExternal ==
    /\ isInitialized = FALSE
    /\ registryMap = EmptyMap
    /\ taxMap = EmptyMap
    /\ insolvencyMap = EmptyMap
    /\ files = [s \in Sources |-> << >>]
    /\ calls = [c \in CallIds |-> IdleCall]
    /\ result = NoResult
    /\ request = IdleRequest
    /\ server = IdleServer
    /\ \E apiKey \in ApiKeys : external = [IdleExternal EXCEPT !.apiKey = apiKey]
    /\ limiter = IdleLimiter

NextExternal ==
    \/ checkAll
    \/ \E reply \in ViesReplies : checkViesSettles(reply)
    \/ \E reply \in SanctionsReplies : checkOpenSanctionsSettles(reply)
    \/ checkAllResume

SpecExternal == InitExternal /\ [][NextExternal]_vars

\* The rate-limiter specification: up to MaxCallers performSearch calls in
\* progress at once, each made again after it settled, with searches that
\* succeed or fail and days that pass.
InitLimiter ==
    /\ isInitialized = FALSE
    /\ registryMap = EmptyMap
    /\ taxMap = EmptyMap
    /\ insolvencyMap = EmptyMap
    /\ files = [s \in Sources |-> << >>]
    /\ calls = [c \in CallIds |-> IdleCall]
    /\ result = NoResult
    /\ request = IdleRequest
    /\ server = IdleServer
    /\ external = IdleExternal
    /\ limiter = IdleLimiter

NextLimiter ==
    \/ \E i \in Callers : performSearch(i)
    \/ \E i \in Callers : performSearch_search(i)
    \/ \E i \in Callers, found \in BOOLEAN : performSearch_settled(i, found)
    \/ \E i \in Callers : performSearch_retry(i)
    \/ dayPasses

SpecLimiter == InitLimiter /\ [][NextLimiter]_vars

\* ------------------------------------------------------------------ claims

\* The trimmed key of line i of the registry source, and the text of its
\* column f after trimming (an absent column reads as the empty string).
SourceKey(i) ==
    LET line == files.registry[i] IN
    IF line.malformed \/ line.fields.regcode.t # "string" THEN <<>>
    ELSE TrimChars(line.fields.regcode.v)
SourceText(i, f) ==
    LET x == files.registry[i].fields[f] IN
    IF x.t = "string" THEN S(TrimChars(x.v)) ELSE EmptyString

\* The last line of the registry source that carries key k.
LastLineOf(k) ==
    CHOOSE i \in DOMAIN files.registry :
        /\ SourceKey(i) = k
        /\ \A j \in DOMAIN files.registry : SourceKey(j) = k => j <= i

RegistryTextFields ==
    {"name", "address", "registered", "type_text", "terminated", "sepa",
     "regtype_text", "type", "closed", "region", "city"}

\* C1: while the gate is not Ready (init() never called, in progress, or
\* failed), getAggregateData fails with the 'not initialized' error for every
\* registration number, whether or not the registry index already holds it:
\* it never returns a record and never reports not-found.
C1_NotReadyLookupThrowsUninitialized ==
    ~isReady =>
        /\ \A r \in RegNumbers : Lookup(r) = NotInitializedError
        /\ result # NoResult => result = NotInitializedError

\* C1 witness: a lookup threw 'not initialized' while the registry index
\* already held a key, after an init() call had failed.
C1_Witness ==
    /\ ~isReady
    /\ result = NotInitializedError
    /\ MapHas(registryMap, <<"1">>)
    /\ \E c \in CallIds : calls[c].pc = "rejected"

\* C2: after a successful init(), getAggregateData of a registration number
\* that is not a key of the registry index fails with the not-found error
\* naming that number, whether the number is in the tax index, the
\* insolvency index, both or neither.
C2_AbsentFromRegistryThrowsNotFound ==
    isInitialized =>
        /\ \A r \in RegNumbers :
               r \notin DOMAIN registryMap =>
                   /\ Lookup(r).kind = "throw"
                   /\ Lookup(r).error = "not found in registry"
                   /\ Lookup(r).regNumber = r
        /\ (result.kind = "throw") =>
               /\ result.error = "not found in registry"
               /\ result.regNumber \in RegNumbers \ DOMAIN registryMap

\* C2 witness: a lookup of a number held by the tax and insolvency indexes
\* but not by the registry threw not-found naming it.
C2_Witness ==
    /\ isInitialized
    /\ result.kind = "throw"
    /\ result.error = "not found in registry"
    /\ result.regNumber = <<"2">>
    /\ MapHas(taxMap, <<"2">>)
    /\ MapHas(insolvencyMap, <<"2">>)
    /\ ~MapHas(registryMap, <<"2">>)

\* C3: after a successful init(), for every registration number carried by a
\* line of the registry source, getAggregateData returns a record whose
\* registry fields equal the trimmed texts of that key's line (the last one
\* carrying it), and none of them is null.
C3_RegistryFieldsEqualTrimmedSource ==
    isInitialized =>
        \A r \in RegNumbers :
            (\E i \in DOMAIN files.registry : SourceKey(i) = r) =>
                /\ Lookup(r).kind = "return"
                /\ \A f \in RegistryTextFields :
                       /\ Lookup(r).value[f] = SourceText(LastLineOf(r), f)
                       /\ Lookup(r).value[f] # Null
                       /\ Lookup(r).value[f] # Undefined

\* C3 witness: a lookup returned a record whose name is the trimmed text of
\* a line whose key and texts had surrounding white space.
C3_Witness ==
    /\ isInitialized
    /\ result.kind = "return"
    /\ result.value.name = S(<<"b">>)
    /\ \E i \in DOMAIN files.registry :
           /\ ~files.registry[i].malformed
           /\ files.registry[i].fields.name = S(<<"b", " ">>)
           /\ files.registry[i].fields.regcode = S(<<" ", "1">>)

\* C4: isReady() is true only after the three index builds started by an
\* init() call have all completed successfully: whenever the gate is Ready,
\* some init() call has resolved with its registry, tax and insolvency
\* builds all done (none failed, none still running).
C4_ReadyOnlyAfterAllThreeBuilds ==
    isReady =>
        \E c \in CallIds :
            /\ calls[c].pc = "resolved"
            /\ calls[c].build["registry"].st = "done"
            /\ calls[c].build["tax"].st = "done"
            /\ calls[c].build["insolvency"].st = "done"

\* C4 witness: the gate is Ready and the first call's three builds are done.
C4_Witness ==
    /\ isReady
    /\ calls[1].pc = "resolved"
    /\ \A s \in Sources : calls[1].build[s].st = "done"

\* C5: an init() call with a failed build never resolves; once settled it
\* has rejected with the failure of one of its builds; and while every
\* invoked call has a failed build the gate is not Ready and every lookup
\* fails with the 'not initialized' error.
C5_FailedBuildRejectsInit ==
    /\ \A c \in CallIds :
           (\E s \in Sources : calls[c].build[s].st = "failed") =>
               /\ calls[c].pc \in {"joining", "rejected"}
               /\ calls[c].pc = "rejected" =>
                      \E s \in Sources :
                          /\ calls[c].build[s].st = "failed"
                          /\ calls[c].thrown = calls[c].build[s].error
                          /\ calls[c].thrown # NoError
    /\ (\A c \in CallIds :
            Invoked(c) => \E s \in Sources : calls[c].build[s].st = "failed")
           => /\ ~isReady
              /\ \A r \in RegNumbers : Lookup(r) = NotInitializedError

\* C5 witness: the registry build hit a rejected line, init() rejected with
\* that parse failure, and a lookup then threw 'not initialized'.
C5_Witness ==
    /\ calls[1].pc = "rejected"
    /\ calls[1].thrown = ParseError("registry")
    /\ ~isReady
    /\ result = NotInitializedError

\* C6 (as claimed): a build is index-or-nothing: once init() has rejected
\* because a build failed part-way through its source (after the parser
\* emitted rows), the three indexes hold none of the rows parsed before the
\* failure and getStats() reports no partially loaded count.
C6_IndexOrNothing ==
    \A s \in Sources :
        (/\ calls[1].pc = "rejected"
         /\ calls[1].build[s].st = "failed"
         /\ calls[1].build[s].pos > 0) =>
            /\ registryMap = EmptyMap
            /\ taxMap = EmptyMap
            /\ insolvencyMap = EmptyMap
            /\ getStats.registryCount = 0
            /\ getStats.taxCount = 0
            /\ getStats.insolvencyCount = 0

\* C7 (as claimed): an init() call issued while an earlier one is still in
\* progress is a no-op: it resolves without starting a second set of builds.
\* Calls are numbered in the order they are invoked.
C7_SecondInitWhileInitializingIsNoOp ==
    \A c, d \in CallIds :
        (c < d /\ calls[c].pc \in {"signIn", "joining"}) =>
            /\ calls[d].pc \in {"idle", "resolved"}
            /\ \A s \in Sources : calls[d].build[s].st = "idle"

\* C8 (as claimed): Failed is terminal: an init() call issued after a build
\* of an earlier call has thrown never makes isReady() true.
C8_FailedIsTerminal ==
    \A c \in CallIds :
        (calls[c].afterFailure /\ calls[c].pc = "resolved") => ~isReady

\* C9 (as claimed): once the gate is Ready no step changes the key sets, the
\* sizes or the records of the three indexes, builds left running by an
\* earlier init() call included.
C9_IndexesFrozenOnceReady ==
    [][isReady => (/\ registryMap' = registryMap
                   /\ taxMap' = taxMap
                   /\ insolvencyMap' = insolvencyMap)]_vars

\* C10: a getAggregateData call (a step that hands a result to its caller),
\* whether it returns a record, throws not-found or throws 'not
\* initialized', leaves the three indexes and the readiness flag unchanged,
\* and so leaves the outcome of every lookup what it was.
C10_LookupsAreSideEffectFree ==
    [][result' # NoResult =>
          /\ isInitialized' = isInitialized
          /\ registryMap' = registryMap
          /\ taxMap' = taxMap
          /\ insolvencyMap' = insolvencyMap
          /\ \A r \in RegNumbers : Lookup(r)' = Lookup(r)]_vars

\* C10 witness: a lookup returned a record for a company with a tax rating
\* and no insolvency record.
C10_Witness ==
    /\ isInitialized
    /\ result.kind = "return"
    /\ result.value.rating = S(<<"p">>)
    /\ result.value.has_insolvency = FALSE
    /\ MapSize(registryMap) = 2

InsolvencyTextFields ==
    {"proceeding_resolution_name", "proceeding_started_on",
     "proceeding_ended_on", "proceeding_form", "proceeding_type",
     "court_name"}

TaxTextFields == {"rating", "explanation", "rating_updated_date"}

\* C11: for every successful lookup, has_insolvency is true exactly when the
\* registration number is a key of the insolvency index, whatever the fields
\* of the matched insolvency record hold (all of them empty included).
C11_HasInsolvencyIffKeyInIndex ==
    /\ \A r \in RegNumbers :
           Lookup(r).kind = "return" =>
               (Lookup(r).value.has_insolvency = TRUE
                    <=> r \in DOMAIN insolvencyMap)
    /\ (result.kind = "return" /\ result.value.has_insolvency = TRUE) =>
           \E r \in DOMAIN registryMap : r \in DOMAIN insolvencyMap
    /\ (result.kind = "return" /\ result.value.has_insolvency = FALSE) =>
           \E r \in DOMAIN registryMap : r \notin DOMAIN insolvencyMap

\* C11 witness: a lookup returned has_insolvency = true for a company whose
\* insolvency record has only empty fields.
C11_Witness ==
    /\ result.kind = "return"
    /\ result.value.has_insolvency = TRUE
    /\ result.value.rating = S(<<"p">>)
    /\ MapHas(insolvencyMap, <<"1">>)
    /\ \A f \in InsolvencyTextFields : insolvencyMap[<<"1">>][f] = EmptyString
    /\ ~MapHas(insolvencyMap, <<"2">>)

\* C12: every registry record has is_active = false exactly when the
\* termination-date text of the row it was loaded from is non-empty after
\* trimming; a lookup returns the record's value; and no later step changes
\* is_active of a key except a row load that replaces the record together
\* with its termination date.
C12_IsActiveIffNoTerminationDate ==
    /\ [](/\ \A k \in DOMAIN registryMap :
                 \E i \in DOMAIN files.registry :
                     /\ SourceKey(i) = k
                     /\ registryMap[k].terminated = SourceText(i, "terminated")
                     /\ registryMap[k].is_active = FALSE
                            <=> SourceText(i, "terminated") # EmptyString
          /\ \A r \in RegNumbers :
                 Lookup(r).kind = "return" =>
                     /\ Lookup(r).value.is_active = registryMap[r].is_active
                     /\ Lookup(r).value.is_active = FALSE
                            <=> Lookup(r).value.terminated # EmptyString
          /\ isInitialized =>
                 \A r \in DOMAIN registryMap :
                     registryMap[r].is_active = FALSE
                         <=> SourceText(LastLineOf(r), "terminated")
                                 # EmptyString)
    /\ [][\A k \in (DOMAIN registryMap) \cap (DOMAIN registryMap') :
              registryMap'[k].is_active # registryMap[k].is_active =>
                  /\ ~isInitialized
                  /\ registryMap'[k].terminated # registryMap[k].terminated]_vars

\* C12 witness: a lookup returned is_active = true for a company whose
\* termination-date text in the source is blank, not empty.
C12_Witness ==
    /\ result.kind = "return"
    /\ result.value.is_active = TRUE
    /\ result.value.name = EmptyString
    /\ \E i \in DOMAIN files.registry :
           /\ SourceKey(i) = <<"2">>
           /\ files.registry[i].fields.terminated = S(<<" ">>)

\* C13: when the registry has the number, the lookup returns a record (no
\* error) whether or not the other two indexes have it: with no tax record
\* rating, explanation and rating_updated_date are null, and with no
\* insolvency record has_insolvency is false and every insolvency field is
\* null.
C13_AbsentTaxOrInsolvencyIsNull ==
    /\ isInitialized =>
           \A r \in RegNumbers :
               r \in DOMAIN registryMap =>
                   /\ Lookup(r).kind = "return"
                   /\ r \notin DOMAIN taxMap =>
                          \A f \in TaxTextFields : Lookup(r).value[f] = Null
                   /\ r \notin DOMAIN insolvencyMap =>
                          /\ Lookup(r).value.has_insolvency = FALSE
                          /\ \A f \in InsolvencyTextFields :
                                 Lookup(r).value[f] = Null
    /\ (result.kind = "return" /\ taxMap = EmptyMap) =>
           \A f \in TaxTextFields : result.value[f] = Null
    /\ (result.kind = "return" /\ insolvencyMap = EmptyMap) =>
           /\ result.value.has_insolvency = FALSE
           /\ \A f \in InsolvencyTextFields : result.value[f] = Null

\* C13 witness: a lookup returned a record with null tax fields and null
\* insolvency fields for a company that only the registry knows.
C13_Witness ==
    /\ result.kind = "return"
    /\ result.value.name = S(<<"a">>)
    /\ result.value.rating = Null
    /\ result.value.court_name = Null
    /\ result.value.has_insolvency = FALSE
    /\ MapHas(registryMap, <<"1">>)
    /\ ~MapHas(taxMap, <<"1">>)
    /\ ~MapHas(insolvencyMap, <<"1">>)
    /\ MapHas(taxMap, <<"2">>)

\* C14 (as claimed): the merge is a field-union: a returned record belongs
\* to a registry key whose registry fields it carries, and when the tax index
\* has that key its tax fields equal the matched tax record's fields, and
\* when the insolvency index has it its insolvency fields equal the matched
\* insolvency record's fields, the empty string included: a matched record
\* is never reported with null in place of its own value.
C14_MergeIsFieldUnion ==
    result.kind = "return" =>
        \E r \in DOMAIN registryMap :
            /\ \A f \in RegistryTextFields :
                   result.value[f] = registryMap[r][f]
            /\ r \in DOMAIN taxMap =>
                   \A f \in TaxTextFields : result.value[f] = taxMap[r][f]
            /\ r \in DOMAIN insolvencyMap =>
                   \A f \in InsolvencyTextFields :
                       result.value[f] = insolvencyMap[r][f]

\* C15 (as claimed): getAggregateData resolves the registry entry by the
\* trimmed registration number: an input whose trimmed value is a key of the
\* registry index returns that company's record, and not-found is thrown
\* only when the trimmed value is not a key.
C15_LookupByTrimmedNumber ==
    /\ isInitialized =>
           \A r \in RegNumbers :
               TrimChars(r) \in DOMAIN registryMap =>
                   Lookup(r) = Returned(AggregateData(TrimChars(r)))
    /\ (result.kind = "throw" /\ result.error = "not found in registry") =>
           TrimChars(result.regNumber) \notin DOMAIN registryMap

\* The key column of each source, its index, and the record its 'data'
\* handler builds from a parsed row.
KeyColumn(s) ==
    CASE s = "registry" -> "regcode"
      [] s = "tax" -> "Registracijas_kods"
      [] s = "insolvency" -> "debtor_registration_number"
MapOf(s) ==
    CASE s = "registry" -> registryMap
      [] s = "tax" -> taxMap
      [] s = "insolvency" -> insolvencyMap
DataOf(s, row) ==
    CASE s = "registry" -> RegistryData(row)
      [] s = "tax" -> TaxData(row)
      [] s = "insolvency" -> InsolvencyData(row)

\* The key text of line i of source s with its surrounding white space
\* stripped; the empty sequence when the line has no key column.
LineKey(s, i) ==
    LET line == files[s][i] IN
    IF line.malformed \/ line.fields[KeyColumn(s)].t # "string" THEN <<>>
    ELSE TrimChars(line.fields[KeyColumn(s)].v)

\* The distinct non-empty trimmed keys of source s.
KeysOf(s) == {LineKey(s, i) : i \in DOMAIN files[s]} \ {<<>>}

\* The last line of source s, in parse order, that carries key k.
LastOf(s, k) ==
    CHOOSE i \in DOMAIN files[s] :
        /\ LineKey(s, i) = k
        /\ \A j \in DOMAIN files[s] : LineKey(s, j) = k => j <= i

BuildDone(s) == calls[1].build[s].st = "done"

\* C16: for each of the three indexes, once its build has completed the
\* index maps each key of the source to one record, and that record is the
\* one derived from the last line, in parse order, that carries the key.
C16_LastRowWinsInEveryIndex ==
    \A s \in Sources :
        BuildDone(s) =>
            /\ DOMAIN MapOf(s) = KeysOf(s)
            /\ \A k \in KeysOf(s) :
                   MapOf(s)[k] = DataOf(s, ParseLine(files[s][LastOf(s, k)]))

\* C16 witness: the insolvency build completed over a source with two lines
\* for the same key, and the index holds the record of the second.
C16_Witness ==
    /\ BuildDone("insolvency")
    /\ Len(files.insolvency) = 2
    /\ LineKey("insolvency", 1) = <<"1">>
    /\ LineKey("insolvency", 2) = <<"1">>
    /\ files.insolvency[1] # files.insolvency[2]
    /\ MapSize(insolvencyMap) = 1
    /\ insolvencyMap[<<"1">>] =
           InsolvencyData(ParseLine(files.insolvency[2]))
    /\ insolvencyMap[<<"1">>] #
           InsolvencyData(ParseLine(files.insolvency[1]))

\* The stats count of the index of source s.
CountOf(s) ==
    CASE s = "registry" -> getStats.registryCount
      [] s = "tax" -> getStats.taxCount
      [] s = "insolvency" -> getStats.insolvencyCount

\* C17: a row whose key is absent or empty after trimming is skipped: the
\* 'data' step that handles it leaves the index as it was and the build
\* running, with no error; any other row is inserted under its trimmed key;
\* and once a build has completed, the count getStats() reports for its
\* index is the number of distinct non-empty trimmed keys of the source.
C17_KeylessRowsSkippedCountsDistinctKeys ==
    /\ [](\A s \in Sources :
              BuildDone(s) => CountOf(s) = Cardinality(KeysOf(s)))
    /\ [][\A s \in Sources :
              calls'[1].build[s].pos = calls[1].build[s].pos + 1 =>
                  LET i == calls'[1].build[s].pos
                      k == LineKey(s, i)
                  IN  /\ calls'[1].build[s].st = "parsing"
                      /\ calls'[1].build[s].error = NoError
                      /\ calls'[1].rejection = calls[1].rejection
                      /\ k = <<>> => MapOf(s)' = MapOf(s)
                      /\ k # <<>> =>
                             /\ k \in DOMAIN MapOf(s)'
                             /\ MapOf(s)'[k] =
                                    DataOf(s, ParseLine(files[s][i]))
                             /\ DOMAIN MapOf(s)' = DOMAIN MapOf(s) \cup {k}]_vars

\* C17 witness: the tax build completed over a source whose first line has a
\* blank key and whose second has a key with white space around it; the
\* tax index holds that one key and getStats() counts one.
C17_Witness ==
    /\ BuildDone("tax")
    /\ Len(files.tax) = 2
    /\ files.tax[1].fields.Registracijas_kods = S(<<" ">>)
    /\ files.tax[2].fields.Registracijas_kods = S(<<" ", "1">>)
    /\ DOMAIN taxMap = {<<"1">>}
    /\ getStats.taxCount = 1
    /\ calls[1].pc = "resolved"

Levels == {"LOW", "MEDIUM", "HIGH", "CRITICAL"}

\* The order LOW < MEDIUM < HIGH < CRITICAL of the levels.
LevelRank(level) ==
    CASE level = "LOW" -> 0
      [] level = "MEDIUM" -> 1
      [] level = "HIGH" -> 2
      [] level = "CRITICAL" -> 3

\* C18: whenever calculateOverallRisk returned, the level is the one the
\* uncapped sum S = 30 (not active) + 40 (has insolvency) + 50 (sanctioned)
\* + 20 (rating contains 'poor' in any letter case; null adds nothing)
\* falls in: CRITICAL from 80, HIGH from 50, MEDIUM from 25, LOW below.
C18_LevelIsThresholdOfUncappedSum ==
    request.overallRisk.kind = "return" =>
        LET d == request.localData.v
            sum == (IF d.is_active = FALSE THEN 30 ELSE 0)
                     + (IF d.has_insolvency = TRUE THEN 40 ELSE 0)
                     + (IF request.apiResults.v.is_sanctioned = TRUE
                        THEN 50 ELSE 0)
                     + (IF d.rating.t = "string" /\ d.rating.v \in PoorTexts
                        THEN 20 ELSE 0)
        IN  request.overallRisk.level =
                IF sum >= 80 THEN "CRITICAL"
                ELSE IF sum >= 50 THEN "HIGH"
                ELSE IF sum >= 25 THEN "MEDIUM"
                ELSE "LOW"

\* C18 witness: a terminated company with an insolvency record and a
\* sanction hit, no rating: 30 + 40 + 50 = 120, scored CRITICAL.
C18_Witness ==
    /\ request.overallRisk = RiskReturned("CRITICAL")
    /\ request.localData.t = "object"
    /\ request.localData.v.is_active = FALSE
    /\ request.localData.v.has_insolvency = TRUE
    /\ request.localData.v.rating = Null
    /\ request.apiResults.v.is_sanctioned = TRUE

\* The inputs that differ from (d, api) in one risk signal, switched from
\* false to true: terminated, insolvency present, sanctioned, or a rating
\* that contains 'poor' in place of one that does not.
SignalUps(d, api) ==
    (IF d.is_active = TRUE
     THEN {<<[d EXCEPT !.is_active = FALSE], api>>} ELSE {})
    \cup (IF d.has_insolvency = FALSE
          THEN {<<[d EXCEPT !.has_insolvency = TRUE], api>>} ELSE {})
    \cup (IF api.is_sanctioned = FALSE
          THEN {<<d, [api EXCEPT !.is_sanctioned = TRUE]>>} ELSE {})
    \cup (IF d.rating.t = "string" /\ d.rating.v \in PoorTexts
          THEN {}
          ELSE {<<[d EXCEPT !.rating = S(t)], api>> : t \in PoorTexts})

\* The PEP results and adverse-media scores the controller with three
\* checks passes on.
WithPep(api, pep) ==
    [sanctions |-> [is_sanctioned |-> api.is_sanctioned],
     pep_check |-> [is_pep |-> pep]]

\* C19: whenever calculateOverallRisk returned, the same call with one more
\* risk signal true and the others as they are gives a score that is not
\* lower and a level that is not lower in LOW < MEDIUM < HIGH < CRITICAL;
\* the same holds for the scoring with PEP and adverse-media terms, whatever
\* these two are.
C19_ScoringIsMonotone ==
    request.overallRisk.kind = "return" =>
        LET d == request.localData.v
            api == request.apiResults.v
        IN  \A up \in SignalUps(d, api) :
                /\ RiskScore(up[1], up[2]) >= RiskScore(d, api)
                /\ calculateOverallRisk(Obj(up[1]), Obj(up[2])).kind = "return"
                /\ LevelRank(calculateOverallRisk(Obj(up[1]), Obj(up[2])).level)
                       >= LevelRank(request.overallRisk.level)
                /\ \A pep \in BOOLEAN, media \in MediaScores :
                       LET ai == [risk_score |-> media] IN
                       /\ RiskScoreTenths(up[1], WithPep(up[2], pep), ai)
                              >= RiskScoreTenths(d, WithPep(api, pep), ai)
                       /\ LevelRank(RiskLevelTenths(
                              RiskScoreTenths(up[1], WithPep(up[2], pep), ai)))
                              >= LevelRank(RiskLevelTenths(
                                     RiskScoreTenths(d, WithPep(api, pep), ai)))

\* C19 witness: an active company with an insolvency record and a rating
\* without 'poor', not sanctioned, was scored MEDIUM; each of the three
\* signals still false can be switched on.
C19_Witness ==
    /\ request.overallRisk = RiskReturned("MEDIUM")
    /\ request.localData.v.is_active = TRUE
    /\ request.localData.v.has_insolvency = TRUE
    /\ request.localData.v.rating = S(<<"p", "o", "r">>)
    /\ request.apiResults.v.is_sanctioned = FALSE
    /\ Cardinality(SignalUps(request.localData.v, request.apiResults.v)) = 5

\* C20 (as claimed): calculateOverallRisk has no failure mode: for whatever
\* the controller passes to it, the value it passes when the lookup produced
\* no record included, it returns one of the four levels and does not throw.
C20_ScoringNeverThrows ==
    request.overallRisk.kind # "none" =>
        /\ request.overallRisk.kind = "return"
        /\ request.overallRisk.level \in Levels

\* C21: whenever the scoring with an adverse-media term returned for a
\* media score m in 0..100, the level is the threshold level of base + 0.3 m
\* (in tenths: base + 3 m against 800, 500, 250), where base is the sum of
\* the five other signals; the media term is between 0 and 30 and is added
\* to base; and a higher media score with the other inputs as they are
\* never gives a lower level.
C21_MediaTermAddsThreeTenths ==
    (request.controller = WithMedia /\ request.overallRisk.kind = "return") =>
        LET d == request.localData.v
            api == request.apiResults.v
            m == request.aiResults.v.risk_score
            base == (IF d.is_active = FALSE THEN 300 ELSE 0)
                      + (IF d.has_insolvency = TRUE THEN 400 ELSE 0)
                      + (IF api.sanctions.is_sanctioned = TRUE
                         THEN 500 ELSE 0)
                      + (IF api.pep_check.is_pep = TRUE THEN 250 ELSE 0)
                      + (IF d.rating.t = "string" /\ d.rating.v \in PoorTexts
                         THEN 200 ELSE 0)
            LevelOf(tenths) ==
                IF tenths >= 800 THEN "CRITICAL"
                ELSE IF tenths >= 500 THEN "HIGH"
                ELSE IF tenths >= 250 THEN "MEDIUM"
                ELSE "LOW"
        IN  /\ m \in 0..100
            /\ 3 * m \in 0..300
            /\ request.overallRisk.level = LevelOf(base + 3 * m)
            /\ LevelRank(request.overallRisk.level) >= LevelRank(LevelOf(base))
            /\ \A higher \in {h \in MediaScores : h >= m} :
                   LET again ==
                           calculateOverallRiskWithMedia(
                               request.localData, request.apiResults,
                               Obj([request.aiResults.v
                                        EXCEPT !.risk_score = higher]))
                   IN  /\ again.kind = "return"
                       /\ LevelRank(again.level)
                              >= LevelRank(request.overallRisk.level)

\* C21 witness: an active company with an insolvency record, a rating
\* without 'poor' and a PEP hit has base 65; the media score 50 adds 15 and
\* the sum 80 is scored CRITICAL, where base alone is HIGH.
C21_Witness ==
    /\ request.controller = WithMedia
    /\ request.overallRisk = RiskReturned("CRITICAL")
    /\ request.localData.v.is_active = TRUE
    /\ request.localData.v.has_insolvency = TRUE
    /\ request.localData.v.rating = S(<<"p", "o", "r">>)
    /\ request.apiResults.v.sanctions.is_sanctioned = FALSE
    /\ request.apiResults.v.pep_check.is_pep = TRUE
    /\ request.aiResults.v.risk_score = 50

\* C22 (as claimed): a request with a valid body whose submission exists and
\* whose registration number the registry index lacks is answered 404 with
\* the 'not found in registry' message of the lookup, never 200 and never
\* 500.
C22_AbsentFromRegistryAnswers404 ==
    (/\ request.pc = "responded"
     /\ request.localDataError = "not found in registry") =>
        /\ request.response.status = 404
        /\ request.response.error = "not found in registry"

\* C28: whenever calculateOverallRisk returned a level and the request has
\* been answered, the answer is 200 with success and the profile of Step C
\* (the request's number, the record's flags and rating, the level), the
\* same whether saveRiskProfile resolved or threw.
C28_SaveFailureDoesNotBlockResponse ==
    (request.pc = "responded" /\ request.overallRisk.kind = "return") =>
        /\ request.saved # ""
        /\ request.response.status = 200
        /\ request.response.success = TRUE
        /\ request.response.data.t = "object"
        /\ LET data == request.response.data.v IN
           /\ data.registration_number = request.registrationNumber
           /\ data.company_name = request.companyName
           /\ data.is_active = request.localData.v.is_active
           /\ data.has_insolvency = request.localData.v.has_insolvency
           /\ data.overall_risk_level = request.overallRisk.level
           /\ data.overall_risk_level \in Levels

\* C28 witness: a scored request whose insert failed was answered 200 with
\* a profile that carries the level.
C28_Witness ==
    /\ request.pc = "responded"
    /\ request.overallRisk = RiskReturned("CRITICAL")
    /\ request.saved = "Failed to save risk profile to database"
    /\ request.response.status = 200
    /\ request.response.data.v.overall_risk_level = "CRITICAL"

\* The collaborators in the order a controller calls them.
StepOrder(controller) ==
    <<"getCompanyByRegistrationNumber", "getAggregateData", "checkAll">>
        \o (IF controller = Current THEN << >> ELSE <<"analyzeReputation">>)
        \o <<"saveRiskProfile">>

ValidationErrors ==
    {"Request body is required", "Company registration number is required",
     "Company registration number must be a string",
     "Company registration number cannot be empty"}

\* C29: at every point of a request the collaborators called so far are a
\* prefix of the order submission lookup, registry lookup, external checks,
\* save, each called at most once; a request answered with a validation
\* error called none; one answered 'submission not found' called only the
\* submission lookup; saveRiskProfile is called only after
\* calculateOverallRisk returned a level, and never on a request answered
\* 400 or 404.
C29_StepsInOrderStopAtFirstGate ==
    LET order == StepOrder(request.controller)
        called == request.called
        saves == {i \in DOMAIN called : called[i] = "saveRiskProfile"}
    IN  /\ Len(called) <= Len(order)
        /\ called = SubSeq(order, 1, Len(called))
        /\ request.response.error \in ValidationErrors => called = << >>
        /\ request.response.error = "Company submission not found in database"
               => called = <<"getCompanyByRegistrationNumber">>
        /\ Cardinality(saves) <= 1
        /\ saves # {} => request.overallRisk.kind = "return"
        /\ request.response.status \in {400, 404} => saves = {}
        /\ request.response.status = 200 => Cardinality(saves) = 1

\* C29 witness: the controller with media checks answered 404 for a number
\* the registry lacks, after the submission lookup, the registry lookup and
\* the checks, without scoring and without saving.
C29_Witness ==
    /\ request.pc = "responded"
    /\ request.controller = WithMedia
    /\ request.response.status = 404
    /\ request.response.error = "not found in registry"
    /\ request.called = <<"getCompanyByRegistrationNumber", "getAggregateData",
                          "checkAll", "analyzeReputation">>
    /\ request.overallRisk = NoRisk

\* C23: the server listens only when the init() call of startServer has
\* resolved, with its three builds done and the service ready, so a request
\* the routes serve never finds the service uninitialized; when that call
\* rejected the server does not listen, the process has exited only with
\* code 1 after a rejected init(), and once exited it never listens.
C23_ListensOnlyAfterInitResolved ==
    /\ [](/\ server.st = "listening" =>
                /\ calls[1].pc = "resolved"
                /\ isInitialized
                /\ \A s \in Sources : calls[1].build[s].st = "done"
          /\ calls[1].pc = "rejected" => server.st # "listening"
          /\ server.st = "exited" =>
                 server.exitCode = 1 /\ calls[1].pc = "rejected"
          /\ request.localDataError # "not initialized")
    /\ [][server.st = "exited" => server'.st = "exited"]_vars

\* C23 witness: the registry build of startServer's init() call failed, the
\* call rejected, and the process exited with code 1 without listening.
C23_Witness ==
    /\ server.st = "exited"
    /\ server.exitCode = 1
    /\ calls[1].pc = "rejected"
    /\ calls[1].build.registry.st = "failed"
    /\ ~isInitialized

\* The VIES request, the OpenSanctions request of the checkAll call failed;
\* the call found no API key to make the OpenSanctions request with.
ViesFailed == external.viesReply.kind = "error"
SanctionsFailed == external.sanctionsReply.kind = "error"
NoApiKey == external.apiKey \in {Undefined, EmptyString}

\* C24 (as claimed): checkAll never rejects, and whenever its VIES request
\* or its OpenSanctions request failed, or no API key is configured, it
\* resolves with is_sanctioned = false and an empty sanction_sources.
C24_AnyFailureResolvesNotSanctioned ==
    /\ external.pc # "rejected"
    /\ (external.pc = "resolved" /\ (ViesFailed \/ SanctionsFailed \/ NoApiKey))
           => /\ external.result.v.is_sanctioned = FALSE
              /\ external.result.v.sanction_sources = << >>

\* C24 (amended): checkAll never rejects; whenever its OpenSanctions request
\* failed or no API key is configured, it resolves with is_sanctioned =
\* false and an empty sanction_sources; whenever its VIES request failed, it
\* resolves with vies_valid = false and no address, and with the sanction
\* fields the OpenSanctions check returned.
C24_FailuresResolveToDefaults ==
    /\ external.pc # "rejected"
    /\ external.vies.kind # "reject"
    /\ external.sanctions.kind # "reject"
    /\ external.pc = "resolved" =>
           /\ (SanctionsFailed \/ NoApiKey) =>
                  /\ external.result.v.is_sanctioned = FALSE
                  /\ external.result.v.sanction_sources = << >>
           /\ ViesFailed =>
                  /\ external.result.v.vies_valid = FALSE
                  /\ external.result.v.vies_address = Null
           /\ external.result.v.is_sanctioned
                  = external.sanctions.value.is_sanctioned
           /\ external.result.v.sanction_sources
                  = external.sanctions.value.sanction_sources

\* C24 witness: with an API key set both requests failed, and checkAll
\* resolved with the defaults.
C24_Witness ==
    /\ external.pc = "resolved"
    /\ ViesFailed
    /\ SanctionsFailed
    /\ ~NoApiKey
    /\ external.result.v.is_sanctioned = FALSE
    /\ external.result.v.sanction_sources = << >>
    /\ external.result.v.vies_valid = FALSE

\* C27: whenever checkOpenSanctions has returned, is_sanctioned is true
\* exactly when an API key is configured, the request was answered, and a
\* match of the answer has a score of at least 0.7 (70 hundredths); when it
\* is false sanction_sources is empty; when it is true sanction_details is
\* the array of the matches with score >= 0.7, in the order of the answer.
C27_SanctionedIffHighConfidenceMatch ==
    external.sanctions.kind = "resolve" =>
        LET r == external.sanctions.value
            reply == external.sanctionsReply
            high == IF reply.kind = "results"
                    THEN SelectSeq(reply.results,
                                   LAMBDA match : match.score >= 70)
                    ELSE << >>
        IN  /\ r.is_sanctioned =
                   (/\ external.apiKey.t = "string"
                    /\ external.apiKey.v # << >>
                    /\ reply.kind = "results"
                    /\ high # << >>)
            /\ ~r.is_sanctioned => r.sanction_sources = << >>
            /\ r.is_sanctioned => r.sanction_details = Arr(high)

\* C27 witness: the answer held a match scored 0.69 and one scored exactly
\* 0.70; the check returned sanctioned, with the second match alone as
\* details.
C27_Witness ==
    /\ external.sanctions.kind = "resolve"
    /\ external.sanctionsReply.kind = "results"
    /\ Len(external.sanctionsReply.results) = 2
    /\ external.sanctionsReply.results[1].score = 69
    /\ external.sanctionsReply.results[2].score = 70
    /\ external.sanctions.value.is_sanctioned = TRUE
    /\ external.sanctions.value.sanction_details
           = Arr(<<external.sanctionsReply.results[2]>>)

\* C25 (as claimed): init() is a join-all: whenever an init() call has
\* settled, resolved or rejected, each of the three builds it started has
\* finished (resolved or rejected); none is still downloading or parsing.
C25_InitSettlesAfterAllBuilds ==
    \A c \in CallIds :
        calls[c].pc \in {"resolved", "rejected"} =>
            \A s \in Sources :
                calls[c].build[s].st \in {"idle", "done", "failed"}

\* The key a row of source s is stored under.
RowKey(s, row) ==
    CASE s = "registry" -> RegistryKey(row)
      [] s = "tax" -> TaxKey(row)
      [] s = "insolvency" -> InsolvencyKey(row)

\* The index that the build of source s alone leaves after its first n rows:
\* the handler of s applied to these rows in source order, from an empty
\* index.
RECURSIVE BuildAlone(_, _)
BuildAlone(s, n) ==
    IF n = 0 THEN EmptyMap
    ELSE LET row == ParseLine(files[s][n]) IN
         SetIfKey(BuildAlone(s, n - 1), RowKey(s, row), DataOf(s, row))

\* C26: with the three builds of one init() call running concurrently, at
\* every point each index holds what its own build alone leaves after the
\* rows that build has handled so far, whatever rows of the other two builds
\* came before or in between; so the final content of each index, once its
\* build is done, is that of running the build alone over its whole source.
C26_BuildsDoNotInterfere ==
    \A s \in Sources :
        /\ MapOf(s) = BuildAlone(s, calls[1].build[s].pos)
        /\ BuildDone(s) => MapOf(s) = BuildAlone(s, Len(files[s]))

\* C26 witness: the three sources carry the same key; the insolvency and tax
\* builds are done while the registry build, with two rows, has handled one:
\* rows of the other builds came between the registry's rows.
C26_Witness ==
    /\ Len(files.registry) = 2
    /\ calls[1].build.registry = [st |-> "parsing", pos |-> 1, error |-> NoError]
    /\ BuildDone("tax")
    /\ BuildDone("insolvency")
    /\ DOMAIN registryMap = {<<"1">>}
    /\ DOMAIN taxMap = {<<"1">>}
    /\ DOMAIN insolvencyMap = {<<"1">>}

\* C30 (as claimed): under every interleaving of performSearch calls the
\* searches performed since the last reset never exceed MAX_DAILY_SEARCHES,
\* neither the search() calls made nor the counter of those that succeeded;
\* and a call that finds the cap reached throws 'Daily search limit reached'
\* without making a search.
C30_DailyCapHoldsUnderConcurrency ==
    /\ limiter.searchAttempts <= MAX_DAILY_SEARCHES
    /\ limiter.performed <= MAX_DAILY_SEARCHES
    /\ \A i \in Callers :
           limiter.callers[i].atCap =>
               /\ limiter.callers[i].outcome = "Daily search limit reached"
               /\ limiter.callers[i].searches = 0

=============================================================================
